---- MODULE Spec2Model ----
(***************************************************************************)
(* Beacon: multi-tenant polling of Microsoft 365 logs, rule matching, and  *)
(* the two-layer alert state (5-minute dedup, 60-minute notification       *)
(* throttle).  Time is counted in milliseconds, as Date.getTime() does.    *)
(***************************************************************************)
EXTENDS Integers, Sequences, FiniteSets, TLC

Minute == 60 * 1000

(* src/src/lib/auth.ts:60-61 *)
DEDUP_WINDOW_MS == 5 * 60 * 1000
NOTIFICATION_WINDOW_MS == 60 * 60 * 1000

(* src/src/functions/clients.ts:181-182, pollAuditLogs.ts:154-155 *)
defaultLookback == 60 * 60 * 1000
maxLookback == 6 * 60 * 60 * 1000

(* ---- bounds of the model ---- *)
MaxCalls == 2
MaxTicks == 1
MaxRuns == 2
MaxRules == 2
MaxEvals == 2
MaxOps == 4

(* ---- the monitored tenants, in list order ---- *)
Tenants == <<"T1", "T2">>
TenantSet == {Tenants[i] : i \in 1..Len(Tenants)}

(* ---- the rule catalog as far as alert processing reads it: name and severity ---- *)
RuleSeverity == [R1 |-> "High", RC |-> "Critical"]
RuleNames == DOMAIN RuleSeverity

(* String.prototype.toLowerCase on the user names that occur *)
toLowerCase == [u \in {"alice", "Alice", "bob", "", "m|alice"} |->
                  IF u = "Alice" THEN "alice" ELSE u]

(***************************************************************************)
(* Upstream events.  rule is the outcome of evaluateRules on the event:    *)
(* a rule name, "none" (no rule matches) or "throw" (evaluateRules raises, *)
(* e.g. on an accepted rule document whose conditions have no rules list). *)
(***************************************************************************)
EventList == <<
  [id |-> 1, tenant |-> "T1", source |-> "SignIn",        user |-> "alice", rule |-> "R1",    time |-> 2 * Minute],
  [id |-> 2, tenant |-> "T1", source |-> "SignIn",        user |-> "Alice", rule |-> "R1",    time |-> 6 * Minute],
  [id |-> 3, tenant |-> "T1", source |-> "SignIn",        user |-> "alice", rule |-> "R1",    time |-> 7 * Minute],
  [id |-> 4, tenant |-> "T1", source |-> "SecurityAlert", user |-> "alice", rule |-> "RC",    time |-> 3 * Minute],
  [id |-> 5, tenant |-> "T2", source |-> "SecurityAlert", user |-> "bob",   rule |-> "throw", time |-> 9 * Minute],
  [id |-> 6, tenant |-> "T2", source |-> "AuditLog",      user |-> "bob",   rule |-> "R1",    time |-> 2 * Minute],
  [id |-> 7, tenant |-> "T2", source |-> "AuditLog",      user |-> "bob",   rule |-> "none",  time |-> 3 * Minute] >>

Events == {EventList[i] : i \in 1..Len(EventList)}

EventIds == {e.id : e \in Events}
EventById(i) == CHOOSE e \in Events : e.id = i

Abs(x) == IF x < 0 THEN -x ELSE x

(* ---- clients.ts:343-364 ---- *)
getEventTimestamp(event) == event.time

getEventUser(event) == IF event.source = "SecurityAlert" THEN "" ELSE event.user

(***************************************************************************)
(* Alert state store (AlertDedup and NotificationState tables).            *)
(* A row key is sha256 of the string `${ruleName}|${user.toLowerCase()}`,  *)
(* cut to 32 hex digits; it is modelled by the string that is hashed (the  *)
(* digest is taken to differ for the different strings of the model).      *)
(***************************************************************************)
generateRowKey(ruleName, user) == ruleName \o "|" \o toLowerCase[user]

RowKeys == {generateRowKey(r, getEventUser(e)) : r \in RuleNames, e \in Events}
StateKeys == TenantSet \X RowKeys

NoDedup == [present |-> FALSE, timestamp |-> 0]
NoNotif == [present |-> FALSE, lastNotified |-> 0, alertCount |-> 0]

(* a dedup lookup that suppresses the alert when the read fails *)
isDuplicate_failClosed(tbl, tenantId, ruleName, user, eventTime, readOk) ==
  LET entity == tbl[<<tenantId, generateRowKey(ruleName, user)>>]
  IN  IF ~readOk THEN TRUE
      ELSE IF ~entity.present THEN FALSE
      ELSE Abs(eventTime - entity.timestamp) < DEDUP_WINDOW_MS

(* a dedup lookup whose window includes its end point *)
isDuplicate_inclusive(tbl, tenantId, ruleName, user, eventTime, readOk) ==
  LET entity == tbl[<<tenantId, generateRowKey(ruleName, user)>>]
  IN  IF ~readOk \/ ~entity.present
        THEN FALSE
        ELSE Abs(eventTime - entity.timestamp) <= DEDUP_WINDOW_MS

(* readOk = FALSE: getEntity (or ensureTablesExist) raises something other than 404 *)
isDuplicate(tbl, tenantId, ruleName, user, eventTime, readOk) ==
  LET entity == tbl[<<tenantId, generateRowKey(ruleName, user)>>]
  IN  IF ~readOk \/ ~entity.present
        THEN FALSE
        ELSE Abs(eventTime - entity.timestamp) < DEDUP_WINDOW_MS

recordAlert(tbl, tenantId, ruleName, user, eventTime, writeOk) ==
  IF writeOk
    THEN [tbl EXCEPT ![<<tenantId, generateRowKey(ruleName, user)>>] =
                        [present |-> TRUE, timestamp |-> eventTime]]
    ELSE tbl

(* a throttle lookup whose window includes its end point *)
wasNotifiedRecently_inclusive(tbl, tenantId, ruleName, user, nowMs, readOk) ==
  LET entity == tbl[<<tenantId, generateRowKey(ruleName, user)>>]
  IN  IF ~readOk \/ ~entity.present
        THEN FALSE
        ELSE nowMs - entity.lastNotified <= NOTIFICATION_WINDOW_MS

(* a throttle lookup that never finds a recent notification *)
wasNotifiedRecently_never(tbl, tenantId, ruleName, user, nowMs, readOk) == FALSE

wasNotifiedRecently(tbl, tenantId, ruleName, user, nowMs, readOk) ==
  LET entity == tbl[<<tenantId, generateRowKey(ruleName, user)>>]
  IN  IF ~readOk \/ ~entity.present
        THEN FALSE
        ELSE nowMs - entity.lastNotified < NOTIFICATION_WINDOW_MS

(* countOk = FALSE: the inner getEntity raises; writeOk = FALSE: the upsert raises *)
recordNotification(tbl, tenantId, ruleName, user, nowMs, countOk, writeOk) ==
  LET k == <<tenantId, generateRowKey(ruleName, user)>>
      alertCount == IF countOk /\ tbl[k].present THEN tbl[k].alertCount + 1 ELSE 1
  IN  IF writeOk
        THEN [tbl EXCEPT ![k] = [present |-> TRUE, lastNotified |-> nowMs,
                                 alertCount |-> alertCount]]
        ELSE tbl

(* outcome "ok": both tables swept; "failDedup": raised before any delete;   *)
(* "failNotif": dedup table swept, raised before the notification table.     *)
cleanupDedup(tbl, nowMs, outcome) ==
  IF outcome = "failDedup" THEN tbl
  ELSE [k \in DOMAIN tbl |->
          IF tbl[k].present /\ tbl[k].timestamp < nowMs - DEDUP_WINDOW_MS
            THEN NoDedup ELSE tbl[k]]

cleanupNotif(tbl, nowMs, outcome) ==
  IF outcome # "ok" THEN tbl
  ELSE [k \in DOMAIN tbl |->
          IF tbl[k].present /\ tbl[k].lastNotified < nowMs - NOTIFICATION_WINDOW_MS
            THEN NoNotif ELSE tbl[k]]

(***************************************************************************)
(* processAlert: dedup layer, then throttle layer.  f carries the outcome  *)
(* of each storage call.  The result is the returned alert (or null) and   *)
(* the two tables after the call.                                          *)
(***************************************************************************)
StoreOk == [dupRead |-> TRUE, dupWrite |-> TRUE, notifRead |-> TRUE,
            countRead |-> TRUE, notifWrite |-> TRUE]
(* the storage outcomes tried: all calls succeed, exactly one call fails, all fail *)
StoreOutcomes ==
  {StoreOk,
   [StoreOk EXCEPT !.dupRead = FALSE], [StoreOk EXCEPT !.dupWrite = FALSE],
   [StoreOk EXCEPT !.notifRead = FALSE], [StoreOk EXCEPT !.countRead = FALSE],
   [StoreOk EXCEPT !.notifWrite = FALSE],
   [dupRead |-> FALSE, dupWrite |-> FALSE, notifRead |-> FALSE,
    countRead |-> FALSE, notifWrite |-> FALSE]}

(* processAlert that records the match before it is admitted, and the       *)
(* notification whether or not the alert notifies                           *)
processAlert_recordsAlways(event, dd, nn, nowMs, f) ==
  LET tenantId  == event.tenant
      ruleName  == event.rule
      user      == getEventUser(event)
      eventTime == getEventTimestamp(event)
      dd2 == recordAlert(dd, tenantId, ruleName, user, eventTime, f.dupWrite)
      nn2 == recordNotification(nn, tenantId, ruleName, user, nowMs,
                                f.countRead, f.notifWrite)
  IN  IF isDuplicate(dd, tenantId, ruleName, user, eventTime, f.dupRead)
        THEN [isNull |-> TRUE, ShouldNotify |-> FALSE, dedup |-> dd2, notif |-> nn]
        ELSE
          LET isCritical == RuleSeverity[ruleName] = "Critical"
              recentlyNotified ==
                 wasNotifiedRecently(nn, tenantId, ruleName, user, nowMs, f.notifRead)
              ShouldNotify == isCritical \/ ~recentlyNotified
          IN  [isNull |-> FALSE, ShouldNotify |-> ShouldNotify, dedup |-> dd2,
               notif |-> nn2]

(* processAlert without the Critical bypass of the throttle *)
processAlert_noBypass(event, dd, nn, nowMs, f) ==
  LET tenantId  == event.tenant
      ruleName  == event.rule
      user      == getEventUser(event)
      eventTime == getEventTimestamp(event)
  IN  IF isDuplicate(dd, tenantId, ruleName, user, eventTime, f.dupRead)
        THEN [isNull |-> TRUE, ShouldNotify |-> FALSE, dedup |-> dd, notif |-> nn]
        ELSE
          LET dd2 == recordAlert(dd, tenantId, ruleName, user, eventTime, f.dupWrite)
              ShouldNotify ==
                 ~wasNotifiedRecently(nn, tenantId, ruleName, user, nowMs, f.notifRead)
          IN  [isNull |-> FALSE, ShouldNotify |-> ShouldNotify, dedup |-> dd2,
               notif |-> IF ShouldNotify
                           THEN recordNotification(nn, tenantId, ruleName, user,
                                                   nowMs, f.countRead, f.notifWrite)
                           ELSE nn]

processAlert(event, dd, nn, nowMs, f) ==
  LET tenantId  == event.tenant
      ruleName  == event.rule
      user      == getEventUser(event)
      eventTime == getEventTimestamp(event)
  IN  IF isDuplicate(dd, tenantId, ruleName, user, eventTime, f.dupRead)
        THEN [isNull |-> TRUE, ShouldNotify |-> FALSE, dedup |-> dd, notif |-> nn]
        ELSE
          LET dd2 == recordAlert(dd, tenantId, ruleName, user, eventTime, f.dupWrite)
              isCritical == RuleSeverity[ruleName] = "Critical"
              recentlyNotified ==
                 wasNotifiedRecently(nn, tenantId, ruleName, user, nowMs, f.notifRead)
              ShouldNotify == isCritical \/ ~recentlyNotified
          IN  [isNull |-> FALSE, ShouldNotify |-> ShouldNotify, dedup |-> dd2,
               notif |-> IF ShouldNotify
                           THEN recordNotification(nn, tenantId, ruleName, user,
                                                   nowMs, f.countRead, f.notifWrite)
                           ELSE nn]


(***************************************************************************)
(* State.                                                                  *)
(***************************************************************************)
VARIABLES
  clock,       \* wall clock (ms), what new Date() / Date.now() returns
  dedup,       \* AlertDedup table: StateKeys -> entry
  notif,       \* NotificationState table: StateKeys -> entry
  variant,     \* "file": clients.json (part_004); "table": Clients table (config.ts)
  lastPoll,    \* stored lastPoll of each tenant (clients.json / Clients table)
  cachedClients, \* "file": lastPoll of each tenant in the process's cached client list
  status,      \* stored status of each tenant
  pc,          \* position of the timer handler
  now,         \* the instant captured at the start of the run
  idx,         \* index of the tenant being processed
  since,       \* window start chosen for the tenant being processed
  queue,       \* fetched events of the current tenant not yet evaluated
  alerts,      \* processClient's local alerts array
  allAlerts,   \* the run's batch
  runs,        \* number of runs started
  snap,        \* lastPoll of each tenant as loaded at the start of the run
  outcome,     \* per tenant, how its processing ended in the current run
  runEnd,      \* how the last run ended
  fetchFault,  \* per tenant, the kind of fetch failure swallowed in the current run
  sink,        \* outcome of the run's writeAlerts call and the batch handed to it
  card,        \* outcome of the run's sendTeamsAlerts call
  last,        \* the last processAlert call and what it returned
  nCalls,      \* number of processAlert calls made directly
  nTicks,      \* number of clock advances during runs and between direct calls
  seq,         \* per key: the matches passed to processAlert so far
  admits,      \* per key: the admitted alerts so far
  admitCount,  \* per event: how many alerts it produced (saturating at 2)
  runAdmitted, \* events admitted by processAlert in the current run
  dedupNoSweep, \* AlertDedup as the direct calls would leave it had no sweep run
  notifNoSweep, \* NotificationState likewise
  runHistory,  \* RunHistory table: the run summaries written by logRun
  eng,         \* rules engine: the inputs of evaluateRules / evaluateCondition and the results
  rc,          \* two processes inside processAlert: position, event and locals of each
  ct,          \* Clients table with the admin API and updateClientStatus at the grain of storage calls
  fx,          \* the tenant loop at the grain of single fetches: position and state of each fetch
  win,         \* per tenant: the run, its start and the end of the window of the latest fetches
  ky,          \* two matches passed to the alert-state store one after the other, and what it answered
  fn           \* one call of a function of the program: its name, its argument and what it returned

vars == <<clock, dedup, notif, variant, lastPoll, cachedClients, status, fetchFault, pc, now, idx, since,
          queue, alerts, allAlerts, runs, snap, outcome, runEnd, sink, card,
          last, nCalls, nTicks, seq, admits, admitCount, runAdmitted,
          dedupNoSweep, notifNoSweep, runHistory, eng, rc, ct, fx, win, ky, fn>>

storeVars == <<dedup, notif>>
clientVars == <<variant, lastPoll, cachedClients, status, runHistory, eng, rc, ct, fx, win, ky, fn>>
runVars == <<pc, now, idx, since, queue, alerts, allAlerts, runs, snap, outcome,
             runEnd, sink, card, fetchFault>>
alertHist == <<last, seq, admits, admitCount, dedupNoSweep, notifNoSweep>>
callHist == <<last, seq, admits, dedupNoSweep, notifNoSweep>>
runHist == <<runAdmitted>>

(* ---- rules engine: call outcomes, the tenantId argument, the idle engine ---- *)
Returns(b) == [threw |-> FALSE, value |-> b]
Throws == [threw |-> TRUE, value |-> FALSE]
NoTenantId == [present |-> FALSE, id |-> ""]
TenantId(t) == [present |-> TRUE, id |-> t]
NullResult == [kind |-> "null", index |-> 0]
ThrowResult == [kind |-> "throw", index |-> 0]
NoEng == [mode |-> "off", ev |-> 1, rules |-> <<>>, source |-> "SignIn",
          tenantId |-> NoTenantId, cond |-> <<1, 1, 1>>, calls |-> 0,
          result |-> NullResult, previous |-> NullResult, considered |-> {},
          condResult |-> Returns(FALSE), expected |-> [present |-> FALSE, s |-> <<>>]]

(* ---- no sendTeamsAlerts call yet in the run ---- *)
NoConfig == [enabled |-> FALSE, webhookUrl |-> "", minimumSeverity |-> "Medium"]
NoCard == [result |-> "none", alerts |-> {}, posts |-> 0, config |-> NoConfig]

(* ---- processClient's fetches: Promise.all order, nothing started ---- *)
FetchSources == <<"AuditLog", "SignIn", "SecurityAlert">>
SourceSet == {FetchSources[i] : i \in 1..Len(FetchSources)}
NoFx == [pc |-> "off", idx |-> 0, run |-> 0,
         fetch |-> [t \in TenantSet |-> [s \in SourceSet |-> "none"]]]

(* ---- processes that call processAlert on the shared tables ---- *)
Procs == {1, 2}
NoProc == [pc |-> "off", ev |-> 0, emitted |-> FALSE, ShouldNotify |-> FALSE]
NoRc == [p \in Procs |-> NoProc]

(* ---- Clients table (config.ts): rows, calls in progress, last completed call ---- *)
NoRow == [exists |-> FALSE, name |-> "", lastPoll |-> [present |-> FALSE, at |-> 0],
          status |-> ""]
NoCall == [pc |-> "idle", tenantId |-> "", name |-> "", status |-> "", existing |-> NoRow]
NoOp == [kind |-> "none", tenantId |-> "", before |-> NoRow, after |-> NoRow]
NoCt == [on |-> FALSE, rows |-> [t \in TenantSet |-> NoRow], orch |-> NoCall,
         admin |-> NoCall, ops |-> 0, last |-> NoOp]

(* ---- the store asked about two matches: rule names and users that occur ---- *)
KeyRuleNames == {"R1", "RC", "R1|m"}
KeyUsers == DOMAIN toLowerCase
KeySources == {"SignIn", "SecurityAlert"}
KeyMatches == [tenant : TenantSet, rule : KeyRuleNames, source : KeySources, user : KeyUsers]
KeyStateKeys == TenantSet \X {generateRowKey(r, u) : r \in KeyRuleNames, u \in KeyUsers}
NoMatch == [tenant |-> "", rule |-> "", source |-> "SignIn", user |-> ""]
NoKy == [pc |-> "off", a |-> NoMatch, b |-> NoMatch, dedup |-> <<>>, notif |-> <<>>,
         duplicate |-> FALSE, throttled |-> FALSE]

(* ---- no function called ---- *)
NoFn == [op |-> "off", in |-> <<>>, out |-> <<>>, calls |-> 0]

(* ---- no window fetched yet ---- *)
NoWindow == [run |-> 0, at |-> 0, upTo |-> 0, ok |-> FALSE]

NoPoll == [present |-> FALSE, at |-> 0]
NoLast == [id |-> 0, key |-> <<"", "">>, isNull |-> TRUE, severity |-> "",
           ShouldNotify |-> FALSE, at |-> 0, first |-> FALSE, near |-> FALSE,
           away |-> FALSE, firstAdmit |-> FALSE, sinceFirstAdmit |-> 0,
           dedupFault |-> FALSE, notifFault |-> FALSE, recordFault |-> FALSE,
           priorNotif |-> NoNotif, postNotif |-> NoNotif,
           f |-> StoreOk, priorDedup |-> NoDedup, postDedup |-> NoDedup,
           noSweepNull |-> TRUE, noSweepNotify |-> FALSE]
NoSeq == [n |-> 0, first |-> 0, near |-> TRUE]
NoAdmits == [n |-> 0, firstAt |-> 0, clean |-> TRUE]

InitRest ==
  /\ clock = 5 * Minute
  /\ dedup = [k \in StateKeys |-> NoDedup]
  /\ notif = [k \in StateKeys |-> NoNotif]
  /\ lastPoll = [t \in TenantSet |-> NoPoll]
  /\ cachedClients = [t \in TenantSet |-> NoPoll]
  /\ status = [t \in TenantSet |-> "unknown"]
  /\ pc = "idle"
  /\ now = 0
  /\ idx = 0
  /\ since = 0
  /\ queue = <<>>
  /\ alerts = <<>>
  /\ allAlerts = <<>>
  /\ runs = 0
  /\ snap = [t \in TenantSet |-> NoPoll]
  /\ outcome = [t \in TenantSet |-> "none"]
  /\ runEnd = "none"
  /\ fetchFault = [t \in TenantSet |-> "none"]
  /\ sink = [result |-> "none", batch |-> {}]
  /\ card = NoCard
  /\ last = NoLast
  /\ nCalls = 0
  /\ nTicks = 0
  /\ seq = [k \in StateKeys |-> NoSeq]
  /\ admits = [k \in StateKeys |-> NoAdmits]
  /\ admitCount = [i \in EventIds |-> 0]
  /\ runAdmitted = {}
  /\ dedupNoSweep = [k \in StateKeys |-> NoDedup]
  /\ notifNoSweep = [k \in StateKeys |-> NoNotif]
  /\ runHistory = {}
  /\ win = [t \in TenantSet |-> NoWindow]

Init == variant \in {"file", "table"} /\ InitRest /\ eng = NoEng /\ fx = NoFx /\ rc = NoRc /\ ct = NoCt /\ ky = NoKy /\ fn = NoFn

InitAlert == variant = "file" /\ InitRest /\ eng = NoEng /\ fx = NoFx /\ rc = NoRc /\ ct = NoCt /\ ky = NoKy /\ fn = NoFn

Min(a, b) == IF a < b THEN a ELSE b

(***************************************************************************)
(* One call processAlert(event, source, rule, client): the tables after    *)
(* the call, and the record of the call.                                   *)
(***************************************************************************)
StoreCall(e, f) ==
  LET r == processAlert(e, dedup, notif, clock, f)
  IN  /\ dedup' = r.dedup
      /\ notif' = r.notif
      /\ admitCount' = IF r.isNull THEN admitCount
                       ELSE [admitCount EXCEPT ![e.id] = Min(admitCount[e.id] + 1, 2)]

CallRecord(e, f) ==
  LET r == processAlert(e, dedup, notif, clock, f)
      rNoSweep == processAlert(e, dedupNoSweep, notifNoSweep, clock, f)
      k == <<e.tenant, generateRowKey(e.rule, getEventUser(e))>>
      t == getEventTimestamp(e)
      isFirst == seq[k].n = 0
      near == IF isFirst THEN TRUE
              ELSE seq[k].near /\ Abs(t - seq[k].first) < DEDUP_WINDOW_MS
      firstAdmit == ~r.isNull /\ admits[k].n = 0
      nFault == ~r.isNull /\ (~f.notifRead \/
                              (r.ShouldNotify /\ (~f.countRead \/ ~f.notifWrite)))
  IN  /\ dedupNoSweep' = rNoSweep.dedup
      /\ notifNoSweep' = rNoSweep.notif
      /\ seq' = [seq EXCEPT ![k] = [n |-> Min(seq[k].n + 1, 2),
                                    first |-> IF isFirst THEN t ELSE seq[k].first,
                                    near |-> near]]
      /\ admits' = IF r.isNull THEN admits
                   ELSE [admits EXCEPT ![k] =
                           [n |-> Min(admits[k].n + 1, 2),
                            firstAt |-> IF firstAdmit THEN clock ELSE admits[k].firstAt,
                            clean |-> admits[k].clean /\ ~nFault]]
      /\ last' = [id |-> e.id, key |-> k, isNull |-> r.isNull,
                  severity |-> RuleSeverity[e.rule],
                  ShouldNotify |-> r.ShouldNotify, at |-> clock,
                  first |-> isFirst, near |-> near,
                  away |-> dedup[k].present /\ Abs(t - dedup[k].timestamp) >= DEDUP_WINDOW_MS,
                  firstAdmit |-> firstAdmit,
                  sinceFirstAdmit |-> IF firstAdmit \/ r.isNull THEN 0
                                      ELSE clock - admits[k].firstAt,
                  dedupFault |-> ~f.dupRead \/ (~r.isNull /\ ~f.dupWrite),
                  notifFault |-> nFault,
                  recordFault |-> ~r.isNull /\ r.ShouldNotify
                                  /\ (~f.countRead \/ ~f.notifWrite),
                  priorNotif |-> notif[k], postNotif |-> r.notif[k],
                  f |-> f, priorDedup |-> dedup[k], postDedup |-> r.dedup[k],
                  noSweepNull |-> rNoSweep.isNull,
                  noSweepNotify |-> rNoSweep.ShouldNotify]

(***************************************************************************)
(* The alert-state store driven directly: processAlert calls, the passage  *)
(* of time, and the sweeper.                                               *)
(***************************************************************************)
AlertSteps == {5 * Minute, 60 * Minute}
CleanupOutcomes == {"ok", "failDedup", "failNotif"}

Matches == {e \in Events : e.rule \in RuleNames /\ e.tenant = "T1"}

ProcessAlertOk(e) ==
  /\ nCalls < MaxCalls
  /\ StoreCall(e, StoreOk)
  /\ CallRecord(e, StoreOk)
  /\ nCalls' = nCalls + 1
  /\ UNCHANGED <<clock, nTicks, clientVars, runVars, runHist>>

ProcessAlertFaulty(e, f) ==
  /\ nCalls < MaxCalls
  /\ f # StoreOk
  /\ StoreCall(e, f)
  /\ CallRecord(e, f)
  /\ nCalls' = nCalls + 1
  /\ UNCHANGED <<clock, nTicks, clientVars, runVars, runHist>>

AlertTick(d) ==
  /\ nTicks < MaxTicks
  /\ nTicks' = nTicks + 1
  /\ clock' = clock + d
  /\ UNCHANGED <<storeVars, clientVars, runVars, alertHist, nCalls, runHist>>

cleanupExpiredEntries(outcomeC) ==
  /\ dedup' = cleanupDedup(dedup, clock, outcomeC)
  /\ notif' = cleanupNotif(notif, clock, outcomeC)

Sweep(outcomeC) ==
  /\ cleanupExpiredEntries(outcomeC)
  /\ UNCHANGED <<clock, nTicks, clientVars, runVars, alertHist, nCalls, runHist>>

NextAlertOk ==
  \/ \E e \in Matches : ProcessAlertOk(e)
  \/ \E d \in AlertSteps : AlertTick(d)
  \/ Sweep("ok")

NextAlert ==
  \/ \E e \in Matches : ProcessAlertOk(e)
  \/ \E e \in Matches, f \in StoreOutcomes : ProcessAlertFaulty(e, f)
  \/ \E d \in AlertSteps : AlertTick(d)
  \/ \E o \in CleanupOutcomes : Sweep(o)

SpecAlertOk == InitAlert /\ [][NextAlertOk]_vars
SpecAlert == InitAlert /\ [][NextAlert]_vars


(***************************************************************************)
(* The timer handler pollAuditLogs.                                        *)
(***************************************************************************)

(* window selection without the maxLookback floor *)
selectSince_noFloor(client, nowMs) ==
  IF client.present THEN client.at ELSE nowMs - defaultLookback

(* window selection, clients.ts:196-203 and pollAuditLogs.ts:172-179 *)
selectSince(client, nowMs) ==
  IF client.present
    THEN LET lastPollTime == client.at
             maxLookbackTime == nowMs - maxLookback
         IN  IF lastPollTime > maxLookbackTime THEN lastPollTime ELSE maxLookbackTime
    ELSE nowMs - defaultLookback

(* part_004:35-42: the cached client is changed in place, then the whole cached *)
(* list is written to clients.json; w = "throw": writeFileSync raises            *)
updateClientLastPoll(cached, lp, tenantId, timestamp, w) ==
  LET clients == [cached EXCEPT ![tenantId] = [present |-> TRUE, at |-> timestamp]]
  IN  IF w = "ok"
        THEN [cached |-> clients, lastPoll |-> clients, threw |-> FALSE]
        ELSE [cached |-> clients, lastPoll |-> lp, threw |-> TRUE]

(* an upsert in Replace mode that leaves the lastPoll column out *)
updateClientStatus_noLastPoll(lp, st, tenantId, newStatus, nowMs, w) ==
  IF w = "ok"
    THEN [lastPoll |-> [lp EXCEPT ![tenantId] = NoPoll],
          status |-> [st EXCEPT ![tenantId] = newStatus],
          threw |-> FALSE]
    ELSE [lastPoll |-> lp, status |-> st, threw |-> TRUE]

(* config.ts:339-366; nowMs is the new Date() of the upsert; w = "throw": a   *)
(* storage call raises something other than 404                              *)
updateClientStatus(lp, st, tenantId, newStatus, nowMs, w) ==
  IF w = "ok"
    THEN [lastPoll |-> [lp EXCEPT ![tenantId] = [present |-> TRUE, at |-> nowMs]],
          status |-> [st EXCEPT ![tenantId] = newStatus],
          threw |-> FALSE]
    ELSE [lastPoll |-> lp, status |-> st, threw |-> TRUE]

(* processClient evaluates audit events, then sign-ins, then security alerts *)
SourceRank(src) == CASE src = "AuditLog" -> 1 [] src = "SignIn" -> 2 [] OTHER -> 3

FetchOrder == SortSeq(EventList,
                      LAMBDA a, b : \/ SourceRank(a.source) < SourceRank(b.source)
                                    \/ /\ SourceRank(a.source) = SourceRank(b.source)
                                       /\ a.id < b.id)

(* the three fetches of a tenant: the events created at or after sinceMs that *)
(* exist when the fetch is made                                               *)
Fetch(tenantId, sinceMs, clockMs) ==
  SelectSeq(FetchOrder,
            LAMBDA e : e.tenant = tenantId /\ e.time >= sinceMs /\ e.time <= clockMs)

(* What goes wrong in the tenant's fetches.  "auth": the token request and the *)
(* Graph calls are refused (AADSTS..., 401/403); "other": they fail otherwise   *)
(* inside the fetches' try blocks.  Each fetch catches the error, logs it and   *)
(* returns the list it has: here, the empty one.                                *)
(* "skip": startSubscription answers that the tenant does not exist and      *)
(* getAuditEvents returns no event (managementApi.ts:58-64); the Graph        *)
(* fetches succeed.                                                           *)
FetchFaults == {"none", "auth", "other", "skip"}

fetchResults(tenantId, sinceMs, clockMs, fault) ==
  CASE fault = "none" -> Fetch(tenantId, sinceMs, clockMs)
    [] fault = "skip" -> SelectSeq(Fetch(tenantId, sinceMs, clockMs),
                                   LAMBDA e : e.source # "AuditLog")
    [] OTHER -> <<>>

(* teams.ts:8-12 and the SEVERITY_ORDER table *)
SEVERITY_ORDER == [Low |-> 1, Medium |-> 2, High |-> 3, Critical |-> 4]

meetsMinimumSeverity(alertSeverity, minimumSeverity) ==
  LET alertLevel == IF alertSeverity \in DOMAIN SEVERITY_ORDER
                    THEN SEVERITY_ORDER[alertSeverity] ELSE 0
      minLevel == SEVERITY_ORDER[minimumSeverity]
  IN  alertLevel >= minLevel

AlertSeverity(a) == RuleSeverity[EventById(a.id).rule]

(* the alerts configuration sendTeamsAlerts reads (getAlertsConfig) *)
AlertsConfigs == {[enabled |-> FALSE, webhookUrl |-> "url", minimumSeverity |-> "Medium"],
                  [enabled |-> TRUE, webhookUrl |-> "", minimumSeverity |-> "Medium"],
                  [enabled |-> TRUE, webhookUrl |-> "url", minimumSeverity |-> "Medium"],
                  [enabled |-> TRUE, webhookUrl |-> "url", minimumSeverity |-> "Critical"]}

(* a notifier that ignores the throttle flag of the alerts *)
cardAlerts_noThrottleFilter(batch, config) ==
  IF ~config.enabled \/ config.webhookUrl = ""
    THEN {}
    ELSE {batch[i].id : i \in {j \in 1..Len(batch) :
                meetsMinimumSeverity(AlertSeverity(batch[j]), config.minimumSeverity)}}

(* teams.ts:122-167: the alerts that go on the card, none when nothing is posted *)
cardAlerts(batch, config) ==
  IF ~config.enabled \/ config.webhookUrl = ""
    THEN {}
    ELSE {batch[i].id : i \in {j \in 1..Len(batch) :
                /\ meetsMinimumSeverity(AlertSeverity(batch[j]), config.minimumSeverity)
                /\ batch[j].ShouldNotify # FALSE}}

RunGaps == {5 * Minute, 365 * Minute}
ErrorStatuses == {"error"}
WriteOutcomes == {"ok", "throw"}

AlertIds(sq) == {sq[i].id : i \in 1..Len(sq)}

fixedRun == <<now, runs, snap, variant, runHistory, eng, rc, ct, fx, ky, fn>>

(* the timer fires: const now = new Date(); the client list is loaded.  cold: the *)
(* run is the first of a new process, whose getClients reads clients.json        *)
StartRun(d, cold) ==
  /\ pc = "idle"
  /\ runs < MaxRuns
  /\ cachedClients' = IF variant = "file" /\ cold THEN lastPoll ELSE cachedClients
  /\ clock' = clock + d
  /\ now' = clock + d
  /\ runs' = runs + 1
  /\ snap' = lastPoll
  /\ idx' = 1
  /\ pc' = "window"
  /\ since' = 0
  /\ queue' = <<>>
  /\ alerts' = <<>>
  /\ allAlerts' = <<>>
  /\ outcome' = [t \in TenantSet |-> "none"]
  /\ runEnd' = "running"
  /\ fetchFault' = [t \in TenantSet |-> "none"]
  /\ sink' = [result |-> "none", batch |-> {}]
  /\ card' = NoCard
  /\ runAdmitted' = {}
  /\ UNCHANGED <<storeVars, variant, runHistory, eng, rc, ct, fx, win, ky, fn, lastPoll, status, alertHist, nCalls, nTicks>>

(* time passes while processClient awaits its fetches *)
RunTick ==
  /\ pc = "events"
  /\ queue = fetchResults(Tenants[idx], since, clock, fetchFault[Tenants[idx]])
  /\ nTicks < MaxTicks
  /\ nTicks' = nTicks + 1
  /\ clock' = clock + Minute
  /\ UNCHANGED <<storeVars, clientVars, runVars, alertHist, nCalls, runHist>>

(* leave the current tenant: the loop goes on, or the loop is over *)
Advance ==
  /\ queue' = <<>>
  /\ alerts' = <<>>
  /\ IF idx < Len(Tenants)
       THEN idx' = idx + 1 /\ pc' = "window"
       ELSE idx' = idx /\ pc' = "upload"
  /\ runEnd' = runEnd

(* the handler's promise rejects: nothing after the loop runs *)
Abort ==
  /\ queue' = <<>>
  /\ alerts' = <<>>
  /\ idx' = 0
  /\ pc' = "idle"
  /\ runEnd' = "aborted"

(* the catch branch for tenant t.  "file": the failure is logged.               *)
(* "table": updateClientStatus(tenantId, status, message) outside any try.      *)
Catch(t, lp, st, errStatus, w) ==
  IF variant = "file"
    THEN /\ lastPoll' = lp
         /\ status' = st
         /\ Advance
    ELSE LET u == updateClientStatus(lp, st, t, errStatus, clock, w)
         IN  /\ lastPoll' = u.lastPoll
             /\ status' = u.status
             /\ IF u.threw THEN Abort ELSE Advance

(* window selection and the three fetches of processClient.  fetchOk = FALSE: *)
(* a fetch raises outside its try block (startSubscription's request fails,   *)
(* getClientCredential finds no credentials) and processClient rejects        *)
FetchTenant(fetchOk, fault, errStatus, w) ==
  /\ pc = "window"
  /\ LET t == Tenants[idx]
         client == IF variant = "file" THEN cachedClients[t] ELSE snap[t]
         s == selectSince(client, now)
     IN  /\ since' = s
         /\ IF fetchOk
              THEN /\ queue' = fetchResults(t, s, clock, fault)
                   /\ fetchFault' = [fetchFault EXCEPT ![t] = fault]
                   /\ win' = [win EXCEPT ![t] = [run |-> runs, at |-> now,
                                                 upTo |-> clock, ok |-> FALSE]]
                   /\ pc' = "events"
                   /\ UNCHANGED <<lastPoll, status, idx, alerts, runEnd, outcome>>
              ELSE /\ fault = "none"
                   /\ Catch(t, lastPoll, status, errStatus, w)
                   /\ fetchFault' = fetchFault
                   /\ win' = [win EXCEPT ![t] = NoWindow]
                   /\ outcome' = [outcome EXCEPT ![t] = "failed"]
  /\ UNCHANGED <<clock, cachedClients, storeVars, fixedRun, allAlerts, sink, card, alertHist,
                 nCalls, nTicks, runHist>>

(* one event of the tenant: evaluateRules finds no rule *)
SkipEvent ==
  /\ pc = "events"
  /\ queue # <<>>
  /\ Head(queue).rule = "none"
  /\ queue' = Tail(queue)
  /\ fetchFault' = fetchFault
  /\ UNCHANGED <<clock, storeVars, clientVars, pc, idx, since, alerts, fixedRun,
                 allAlerts, outcome, runEnd, sink, card, alertHist, nCalls, nTicks,
                 runHist>>

(* one event of the tenant: evaluateRules raises, processClient rejects *)
EvaluateThrows(errStatus, w) ==
  /\ pc = "events"
  /\ queue # <<>>
  /\ Head(queue).rule = "throw"
  /\ Catch(Tenants[idx], lastPoll, status, errStatus, w)
  /\ outcome' = [outcome EXCEPT ![Tenants[idx]] = "failed"]
  /\ win' = [win EXCEPT ![Tenants[idx]] = NoWindow]
  /\ fetchFault' = fetchFault
  /\ UNCHANGED <<clock, cachedClients, storeVars, since, fixedRun, allAlerts, sink, card, alertHist,
                 nCalls, nTicks, runHist>>

(* one event of the tenant: a rule matches, processAlert (storage calls succeed; *)
(* their failures are explored by ProcessAlertFaulty)                           *)
ProcessEvent ==
  /\ pc = "events"
  /\ queue # <<>>
  /\ Head(queue).rule \in RuleNames
  /\ LET e == Head(queue)
         r == processAlert(e, dedup, notif, clock, StoreOk)
     IN  /\ StoreCall(e, StoreOk)
         /\ alerts' = IF r.isNull THEN alerts
                      ELSE Append(alerts, [id |-> e.id, ShouldNotify |-> r.ShouldNotify])
         /\ runAdmitted' = IF r.isNull THEN runAdmitted ELSE runAdmitted \cup {e.id}
  /\ queue' = Tail(queue)
  /\ fetchFault' = fetchFault
  /\ UNCHANGED <<clock, clientVars, pc, idx, since, fixedRun, allAlerts, outcome,
                 runEnd, sink, card, callHist, nCalls, nTicks>>

(* processClient returned: push its alerts, then record the outcome *)
FinishTenant(w1, errStatus, w2) ==
  /\ pc = "events"
  /\ queue = <<>>
  /\ allAlerts' = allAlerts \o alerts
  /\ LET t == Tenants[idx]
     IN  IF variant = "file"
           THEN LET u == updateClientLastPoll(cachedClients, lastPoll, t, now, w1)
                IN  /\ lastPoll' = u.lastPoll
                    /\ cachedClients' = u.cached
                    /\ status' = status
                    /\ Advance
                    /\ outcome' = [outcome EXCEPT ![t] =
                                     IF u.threw THEN "failed" ELSE "success"]
                    /\ win' = [win EXCEPT ![t] = IF u.threw THEN NoWindow
                                                 ELSE [@ EXCEPT !.ok = TRUE]]
           ELSE LET u == updateClientStatus(lastPoll, status, t, "success", clock, w1)
                IN  /\ cachedClients' = cachedClients
                    /\ IF u.threw
                         THEN /\ Catch(t, u.lastPoll, u.status, errStatus, w2)
                              /\ outcome' = [outcome EXCEPT ![t] = "failed"]
                              /\ win' = [win EXCEPT ![t] = NoWindow]
                         ELSE /\ lastPoll' = u.lastPoll
                              /\ status' = u.status
                              /\ Advance
                              /\ outcome' = [outcome EXCEPT ![t] = "success"]
                              /\ win' = [win EXCEPT ![t].ok = TRUE]
  /\ fetchFault' = fetchFault
  /\ UNCHANGED <<clock, storeVars, since, fixedRun, sink, card, alertHist,
                 nCalls, nTicks, runHist>>

(* a handler whose failed upload skips the notifier *)
Upload_skipNotifier(uploadOk) ==
  /\ pc = "upload"
  /\ IF allAlerts = <<>>
       THEN /\ pc' = "cleanup"
            /\ sink' = sink
       ELSE /\ pc' = IF uploadOk THEN "notify" ELSE "cleanup"
            /\ sink' = [result |-> IF uploadOk THEN "ok" ELSE "failed",
                        batch |-> AlertIds(allAlerts)]
  /\ fetchFault' = [t \in TenantSet |-> "none"]
  /\ outcome' = [t \in TenantSet |-> "none"]
  /\ since' = 0
  /\ UNCHANGED <<clock, storeVars, clientVars, idx, queue, alerts, allAlerts,
                 fixedRun, runEnd, card, alertHist, nCalls, nTicks, runAdmitted>>

(* after the loop: writeAlerts(allAlerts) when the batch is not empty.  The loop *)
(* is over: its per-tenant record (since, outcome, fetchFault) is dropped        *)
Upload(uploadOk) ==
  /\ pc = "upload"
  /\ IF allAlerts = <<>>
       THEN /\ pc' = "cleanup"
            /\ sink' = sink
       ELSE /\ pc' = "notify"
            /\ sink' = [result |-> IF uploadOk THEN "ok" ELSE "failed",
                        batch |-> AlertIds(allAlerts)]
  /\ fetchFault' = [t \in TenantSet |-> "none"]
  /\ outcome' = [t \in TenantSet |-> "none"]
  /\ since' = 0
  /\ UNCHANGED <<clock, storeVars, clientVars, idx, queue, alerts, allAlerts,
                 fixedRun, runEnd, card, alertHist, nCalls, nTicks, runAdmitted>>

(* sendTeamsAlerts(allAlerts) *)
Notify(config, postOk) ==
  /\ pc = "notify"
  /\ LET filtered == cardAlerts(allAlerts, config)
     IN  card' = IF filtered = {}
                 THEN [result |-> "skipped", alerts |-> {}, posts |-> card.posts,
                       config |-> config]
                 ELSE [result |-> IF postOk THEN "sent" ELSE "failed",
                       alerts |-> filtered, posts |-> card.posts + 1, config |-> config]
  /\ pc' = "cleanup"
  /\ fetchFault' = fetchFault
  /\ UNCHANGED <<clock, storeVars, clientVars, idx, since, queue, alerts, allAlerts,
                 fixedRun, outcome, runEnd, sink, alertHist, nCalls, nTicks, runHist>>

(* cleanupExpiredEntries(), then the handler returns: its locals are gone   *)
(* (the sweeper's storage calls succeed; their failures are explored by Sweep) *)
Cleanup ==
  /\ pc = "cleanup"
  /\ cleanupExpiredEntries("ok")
  /\ pc' = "idle"
  /\ runEnd' = "complete"
  /\ fetchFault' = [t \in TenantSet |-> "none"]
  /\ idx' = 0
  /\ since' = 0
  /\ allAlerts' = <<>>
  /\ outcome' = [t \in TenantSet |-> "none"]
  /\ sink' = [result |-> "none", batch |-> {}]
  /\ card' = NoCard
  /\ runAdmitted' = {}
  /\ UNCHANGED <<clock, clientVars, queue, alerts, fixedRun, alertHist, nCalls,
                 nTicks>>

Next ==
  \/ \E d \in RunGaps, cold \in BOOLEAN : StartRun(d, cold)
  \/ RunTick
  \/ \E ok \in BOOLEAN, fault \in FetchFaults, es \in ErrorStatuses, w \in WriteOutcomes :
        FetchTenant(ok, fault, es, w)
  \/ SkipEvent
  \/ \E es \in ErrorStatuses, w \in WriteOutcomes : EvaluateThrows(es, w)
  \/ ProcessEvent
  \/ \E w1 \in WriteOutcomes, es \in ErrorStatuses, w2 \in WriteOutcomes :
        FinishTenant(w1, es, w2)
  \/ \E ok \in BOOLEAN : Upload(ok)
  \/ \E c \in AlertsConfigs, ok \in BOOLEAN : Notify(c, ok)
  \/ Cleanup

Spec == Init /\ [][Next]_vars


(***************************************************************************)
(* Rules engine (unnamed/part_006).                                        *)
(* JavaScript strings are sequences of one-character strings; a value is a  *)
(* tagged record: undefined, null, a string, an array (sequence of values) *)
(* or an object (sequence of <<key, value>> pairs, keys distinct).         *)
(***************************************************************************)
JUndef == [t |-> "undefined", v |-> <<>>]
JNull == [t |-> "null", v |-> <<>>]
JStr(s) == [t |-> "string", v |-> s]
JArr(a) == [t |-> "array", v |-> a]
JObj(p) == [t |-> "object", v |-> p]

Digits == <<"0", "1", "2", "3", "4", "5", "6", "7", "8", "9">>
Whitespace == {" "}
UpperToLower == [A |-> "a", B |-> "b", U |-> "u", N |-> "n", O |-> "o"]

(* String.prototype.toLowerCase, character by character *)
toLowerCaseStr(s) ==
  [i \in 1..Len(s) |-> IF s[i] \in DOMAIN UpperToLower THEN UpperToLower[s[i]] ELSE s[i]]

(* String.prototype.includes *)
includes(s, sub) ==
  \E i \in 0..(Len(s) - Len(sub)) : SubSeq(s, i + 1, i + Len(sub)) = sub

(* String.prototype.trim *)
RECURSIVE trim(_)
trim(s) ==
  IF s = <<>> THEN s
  ELSE IF Head(s) \in Whitespace THEN trim(Tail(s))
  ELSE IF s[Len(s)] \in Whitespace THEN trim(SubSeq(s, 1, Len(s) - 1))
  ELSE s

(* String.prototype.split('.'): the parts between the dots *)
RECURSIVE split(_)
split(path) ==
  IF \E i \in 1..Len(path) : path[i] = "."
  THEN LET d == CHOOSE i \in 1..Len(path) :
                   path[i] = "." /\ \A j \in 1..(i - 1) : path[j] # "."
       IN  <<SubSeq(path, 1, d - 1)>> \o split(SubSeq(path, d + 1, Len(path)))
  ELSE <<path>>

(* parseInt(part, 10) on a part without sign: the value of the leading      *)
(* digits after leading white space, NaN when there is none                *)
DigitValue(c) == (CHOOSE i \in 1..Len(Digits) : Digits[i] = c) - 1
IsDigit(c) == \E i \in 1..Len(Digits) : Digits[i] = c

RECURSIVE leadingDigits(_, _)
leadingDigits(s, acc) ==
  IF s # <<>> /\ IsDigit(Head(s))
  THEN leadingDigits(Tail(s), 10 * acc + DigitValue(Head(s)))
  ELSE acc

RECURSIVE parseInt(_)
parseInt(part) ==
  IF part # <<>> /\ Head(part) \in Whitespace THEN parseInt(Tail(part))
  ELSE IF part # <<>> /\ IsDigit(Head(part))
       THEN [isNaN |-> FALSE, n |-> leadingDigits(part, 0)]
       ELSE [isNaN |-> TRUE, n |-> 0]

(* current[part] on an object: the own property, undefined when missing *)
property(pairs, key) ==
  IF \E i \in 1..Len(pairs) : pairs[i][1] = key
  THEN pairs[CHOOSE i \in 1..Len(pairs) : pairs[i][1] = key][2]
  ELSE JUndef

(* current[index] on an array *)
element(a, index) == IF index + 1 \in 1..Len(a) THEN a[index + 1] ELSE JUndef

(* ---- part_006:8-30 ---- *)
RECURSIVE traverse(_, _)
traverse(current, parts) ==
  IF parts = <<>> THEN current
  ELSE IF current.t \in {"null", "undefined"} THEN JUndef
  ELSE IF current.t = "array"
       THEN LET index == parseInt(Head(parts))
            IN  IF index.isNaN THEN JUndef
                ELSE traverse(element(current.v, index.n), Tail(parts))
  ELSE IF current.t = "object"
       THEN traverse(property(current.v, Head(parts)), Tail(parts))
  ELSE JUndef

getNestedValue(obj, path) == traverse(obj, split(path))

(* String(value): "undefined", "null", the string itself, the elements of  *)
(* an array joined by commas (null and undefined elements as the empty     *)
(* string), "[object Object]" for an object                                *)
RECURSIVE String(_)
RECURSIVE join(_)
join(a) ==
  IF a = <<>> THEN <<>>
  ELSE LET h == IF Head(a).t \in {"null", "undefined"} THEN <<>> ELSE String(Head(a))
       IN  IF Len(a) = 1 THEN h ELSE h \o <<",">> \o join(Tail(a))

String(value) ==
  CASE value.t = "undefined" -> <<"u", "n", "d", "e", "f", "i", "n", "e", "d">>
    [] value.t = "null" -> <<"n", "u", "l", "l">>
    [] value.t = "string" -> value.v
    [] value.t = "array" -> join(value.v)
    [] value.t = "object" -> <<"[", "o", "b", "j", "e", "c", "t", " ",
                               "O", "b", "j", "e", "c", "t", "]">>

(* ---- part_006:37-45: replace every {{path}} token, leftmost first ---- *)
(* the position just after the token that starts at i, 0 when none does *)
tokenEnd(s, i) ==
  IF i + 1 <= Len(s) /\ s[i] = "{" /\ s[i + 1] = "{"
     /\ \E k \in (i + 3)..(Len(s) - 1) :
           /\ s[k] = "}" /\ s[k + 1] = "}"
           /\ \A j \in (i + 2)..(k - 1) : s[j] # "}"
  THEN (CHOOSE k \in (i + 3)..(Len(s) - 1) :
           /\ s[k] = "}" /\ s[k + 1] = "}"
           /\ \A j \in (i + 2)..(k - 1) : s[j] # "}") + 2
  ELSE 0

RECURSIVE interpolateFrom(_, _, _)
interpolateFrom(template, event, i) ==
  IF i > Len(template) THEN <<>>
  ELSE LET e == tokenEnd(template, i)
       IN  IF e = 0
           THEN <<template[i]>> \o interpolateFrom(template, event, i + 1)
           ELSE LET value == getNestedValue(event, trim(SubSeq(template, i + 2, e - 3)))
                IN  (IF value.t \notin {"undefined", "null"} THEN String(value) ELSE <<>>)
                    \o interpolateFrom(template, event, e)

(* an interpolation that looks the path up as written, white space included *)
RECURSIVE interpolateFrom_noTrim(_, _, _)
interpolateFrom_noTrim(template, event, i) ==
  IF i > Len(template) THEN <<>>
  ELSE LET e == tokenEnd(template, i)
       IN  IF e = 0
           THEN <<template[i]>> \o interpolateFrom_noTrim(template, event, i + 1)
           ELSE LET value == getNestedValue(event, SubSeq(template, i + 2, e - 3))
                IN  (IF value.t \notin {"undefined", "null"} THEN String(value) ELSE <<>>)
                    \o interpolateFrom_noTrim(template, event, e)

interpolateTemplateValue_noTrim(template, event) == interpolateFrom_noTrim(template, event, 1)

interpolateTemplateValue(template, event) == interpolateFrom(template, event, 1)

Absent == [present |-> FALSE, s |-> <<>>]
Text(s) == [present |-> TRUE, s |-> s]

(* ---- part_006:50-71 ---- *)
matchesOperator(actualValue, operator, expectedValue) ==
  LET expected == IF expectedValue.present THEN JStr(expectedValue.s) ELSE JUndef
  IN  CASE operator = "Exists" -> actualValue.t \notin {"undefined", "null"}
        [] operator = "Equals" ->
             toLowerCaseStr(String(actualValue)) = toLowerCaseStr(String(expected))
        [] operator = "NotEquals" ->
             toLowerCaseStr(String(actualValue)) # toLowerCaseStr(String(expected))
        [] operator = "Contains" ->
             includes(toLowerCaseStr(String(actualValue)), toLowerCaseStr(String(expected)))
        [] OTHER -> FALSE

(* ---- part_006:83-85: the expected value handed to matchesOperator ---- *)
expectedValue(event, condition) ==
  IF condition.value.present
  THEN Text(interpolateTemplateValue(condition.value.s, event))
  ELSE Absent

(* ---- part_006:76-88; a condition without a field makes path.split raise ---- *)
evaluateCondition(event, condition) ==
  IF ~condition.field.present THEN Throws
  ELSE LET value == getNestedValue(event, condition.field.s)
       IN  Returns(matchesOperator(value, condition.operator,
                                   expectedValue(event, condition)))

(* Array.prototype.every / some with the condition callback *)
RECURSIVE every(_, _)
every(event, conds) ==
  IF conds = <<>> THEN Returns(TRUE)
  ELSE LET r == evaluateCondition(event, Head(conds))
       IN  IF r.threw THEN Throws
           ELSE IF ~r.value THEN Returns(FALSE)
           ELSE every(event, Tail(conds))

RECURSIVE some(_, _)
some(event, conds) ==
  IF conds = <<>> THEN Returns(FALSE)
  ELSE LET r == evaluateCondition(event, Head(conds))
       IN  IF r.threw THEN Throws
           ELSE IF r.value THEN Returns(TRUE)
           ELSE some(event, Tail(conds))

(* evaluateConditions without the test for an empty list *)
evaluateConditions_noEmptyCheck(event, conditions) ==
  IF ~conditions.rules.present THEN Throws
  ELSE IF conditions.match = "all" THEN every(event, conditions.rules.list)
  ELSE some(event, conditions.rules.list)

(* ---- part_006:93-108; rules.length raises when the list is missing ---- *)
evaluateConditions(event, conditions) ==
  IF ~conditions.rules.present THEN Throws
  ELSE IF Len(conditions.rules.list) = 0 THEN Returns(FALSE)
  ELSE IF conditions.match = "all" THEN every(event, conditions.rules.list)
  ELSE some(event, conditions.rules.list)

matchesException_never(event, exceptions) == Returns(FALSE)

(* ---- part_006:113-121 ---- *)
matchesException(event, exceptions) ==
  IF ~exceptions.present \/ Len(exceptions.list) = 0 THEN Returns(FALSE)
  ELSE some(event, exceptions.list)


applicable_noTenantFilter(rule, source, tenantId) ==
  rule.enabled /\ rule.source = source

(* ---- part_006:136-146: the filter callback ---- *)
applicable(rule, source, tenantId) ==
  IF ~rule.enabled THEN FALSE
  ELSE IF rule.source # source THEN FALSE
  ELSE IF rule.tenantIds.present /\ Len(rule.tenantIds.list) > 0
          /\ (~tenantId.present \/ tenantId.id = ""
              \/ ~\E i \in 1..Len(rule.tenantIds.list) : rule.tenantIds.list[i] = tenantId.id)
       THEN FALSE
  ELSE TRUE

(* positions (in loader order) of the rules kept by rules.filter *)
RECURSIVE applicableRules(_, _, _, _)
applicableRules(rules, source, tenantId, i) ==
  IF i > Len(rules) THEN <<>>
  ELSE (IF applicable(rules[i], source, tenantId) THEN <<i>> ELSE <<>>)
       \o applicableRules(rules, source, tenantId, i + 1)


(* ---- part_006:148-162: the loop over the applicable rules ---- *)
RECURSIVE firstMatch(_, _, _)
firstMatch(eventRecord, rules, positions) ==
  IF positions = <<>> THEN NullResult
  ELSE LET rule == rules[Head(positions)]
           c == evaluateConditions(eventRecord, rule.conditions)
           x == matchesException(eventRecord, rule.exceptions)
       IN  IF c.threw THEN ThrowResult
           ELSE IF ~c.value THEN firstMatch(eventRecord, rules, Tail(positions))
           ELSE IF x.threw THEN ThrowResult
           ELSE IF x.value THEN firstMatch(eventRecord, rules, Tail(positions))
           ELSE [kind |-> "rule", index |-> Head(positions)]

(* ---- part_006:128-163; rules is what getRules() returns ---- *)
evaluateRules(event, source, tenantId, rules) ==
  firstMatch(event, rules, applicableRules(rules, source, tenantId, 1))

(***************************************************************************)
(* Inputs of the rules engine: events, conditions and rule documents       *)
(* accepted by the loader (config.ts:180-192 checks neither the conditions *)
(* list nor the condition fields).                                         *)
(***************************************************************************)
sOp == <<"O", "p">>
sU == <<"U">>
sT == <<"T">>
sN == <<"N">>
sR == <<"R">>
sAdd == <<"A", "d", "d">>
sBob == <<"B", "o", "b">>

EngineEvents == <<
  JObj(<< <<sOp, JStr(sAdd)>>, <<sU, JStr(<<"b", "o", "b">>)>>,
          <<sT, JArr(<< JObj(<< <<sN, JStr(sBob)>> >>) >>)>>, <<sR, JNull>> >>),
  JObj(<< <<sOp, JStr(<<"a", "d">>)>>, <<sU, JStr(sBob)>>,
          <<sT, JArr(<< JObj(<< <<sN, JStr(<<"a", "n", "n">>)>> >>) >>)>> >>),
  JObj(<< <<sOp, JStr(sAdd)>>, <<sT, JArr(<<>>)>>, <<sR, JStr(<<>>)>> >>),
  JObj(<< <<sU, JStr(<<"u", "n", "d", "e", "f", "i", "n", "e", "d">>)>>, <<sT, JStr(sBob)>> >>) >>

ConditionFields == <<
  Text(sOp),
  Text(sU),
  Text(<<"T", ".", "0", ".", "N">>),
  Text(<<"T", ".", "N">>),
  Text(<<"O", "p", ".", "0">>),
  Text(sR),
  Text(<<"X">>),
  Absent >>

ConditionOperators == <<"Exists", "Equals", "NotEquals", "Contains", "StartsWith">>

ConditionValues == <<
  Absent,
  Text(<<>>),
  Text(<<"a", "d", "d">>),
  Text(<<"b", "o">>),
  Text(<<"U", "n", "d", "e", "f", "i", "n", "e", "d">>),
  Text(<<"n", "u", "l", "l">>),
  Text(<<"{", "{", "U", "}", "}">>),
  Text(<<"{", "{", " ", "T", ".", "0", ".", "N", " ", "}", "}">>),
  Text(<<"{", "{", "X", "}", "}">>),
  Text(<<"a", "{", "{", "U", "}", "}", "d">>) >>

Condition(f, op, v) ==
  [field |-> ConditionFields[f], operator |-> ConditionOperators[op],
   value |-> ConditionValues[v]]

NoList == [present |-> FALSE, list |-> <<>>]
List(l) == [present |-> TRUE, list |-> l]

Sources == {"SignIn", "AuditLog"}

(* the rule documents the loader may hand out, in no particular order *)
RuleCatalog == <<
  [name |-> "K1", enabled |-> TRUE, source |-> "SignIn", tenantIds |-> NoList,
   conditions |-> [match |-> "all", rules |-> List(<<Condition(1, 2, 3)>>)],
   exceptions |-> NoList],
  [name |-> "K2", enabled |-> TRUE, source |-> "SignIn", tenantIds |-> List(<<"T1">>),
   conditions |-> [match |-> "any", rules |-> List(<<Condition(1, 2, 3), Condition(2, 4, 4)>>)],
   exceptions |-> List(<<Condition(3, 2, 7)>>)],
  [name |-> "K3", enabled |-> FALSE, source |-> "SignIn", tenantIds |-> NoList,
   conditions |-> [match |-> "any", rules |-> List(<<Condition(1, 1, 1)>>)],
   exceptions |-> NoList],
  [name |-> "K4", enabled |-> TRUE, source |-> "AuditLog", tenantIds |-> List(<<>>),
   conditions |-> [match |-> "all", rules |-> List(<<Condition(1, 2, 3), Condition(2, 4, 4)>>)],
   exceptions |-> List(<<>>)],
  [name |-> "K5", enabled |-> TRUE, source |-> "SignIn", tenantIds |-> List(<<"T1", "T2">>),
   conditions |-> [match |-> "all", rules |-> List(<<>>)],
   exceptions |-> NoList],
  [name |-> "K6", enabled |-> TRUE, source |-> "SignIn", tenantIds |-> NoList,
   conditions |-> [match |-> "any", rules |-> List(<<Condition(2, 3, 4), Condition(6, 1, 1)>>)],
   exceptions |-> List(<<Condition(3, 1, 1), Condition(7, 2, 3)>>)],
  [name |-> "K7", enabled |-> TRUE, source |-> "SignIn", tenantIds |-> List(<<"T2">>),
   conditions |-> [match |-> "all", rules |-> NoList],
   exceptions |-> NoList],
  [name |-> "K8", enabled |-> TRUE, source |-> "AuditLog", tenantIds |-> List(<<"T2">>),
   conditions |-> [match |-> "all", rules |-> List(<<Condition(1, 1, 1), Condition(8, 2, 3)>>)],
   exceptions |-> NoList],
  [name |-> "K9", enabled |-> TRUE, source |-> "SignIn", tenantIds |-> NoList,
   conditions |-> [match |-> "any", rules |-> List(<<>>)],
   exceptions |-> NoList] >>

(* getRules(): the cached list, any sequence of catalogue documents *)
RuleLists == UNION {[1..n -> 1..Len(RuleCatalog)] : n \in 0..MaxRules}
getRules(ixs) == [i \in 1..Len(ixs) |-> RuleCatalog[ixs[i]]]

TenantIdArgs == {NoTenantId} \cup {TenantId(t) : t \in TenantSet}

InitRules ==
  /\ variant = "file"
  /\ InitRest
  /\ fx = NoFx
  /\ rc = NoRc
  /\ ct = NoCt
  /\ ky = NoKy /\ fn = NoFn
  /\ \/ \E e \in 1..Len(EngineEvents), l \in RuleLists, s \in Sources, t \in TenantIdArgs :
          eng = [NoEng EXCEPT !.mode = "rules", !.ev = e, !.rules = l, !.source = s,
                              !.tenantId = t]
     \/ \E e \in 1..Len(EngineEvents), f \in 1..Len(ConditionFields),
           op \in 1..Len(ConditionOperators), v \in 1..Len(ConditionValues) :
          eng = [NoEng EXCEPT !.mode = "cond", !.ev = e, !.cond = <<f, op, v>>]

progVars == <<clock, storeVars, runHistory, fx, rc, ct, win, ky, fn, lastPoll, cachedClients, status, runVars, alertHist, nCalls, nTicks, runHist>>

Range(sq) == {sq[i] : i \in 1..Len(sq)}

(* one call evaluateRules(event, source, tenantId); considered records the *)
(* positions of the rules that passed the filter                           *)
EvaluateRules ==
  /\ eng.mode = "rules"
  /\ eng.calls < MaxEvals
  /\ eng' = [eng EXCEPT !.calls = @ + 1,
                        !.previous = eng.result,
                        !.considered = Range(applicableRules(getRules(eng.rules), eng.source,
                                                             eng.tenantId, 1)),
                        !.result = evaluateRules(EngineEvents[eng.ev], eng.source,
                                                 eng.tenantId, getRules(eng.rules))]
  /\ UNCHANGED <<variant, progVars>>

(* one call evaluateCondition(event, condition) *)
EvaluateCondition ==
  /\ eng.mode = "cond"
  /\ eng.calls < MaxEvals
  /\ eng' = [eng EXCEPT !.calls = @ + 1,
                        !.condResult = evaluateCondition(EngineEvents[eng.ev],
                                          Condition(eng.cond[1], eng.cond[2], eng.cond[3])),
                        !.expected =
                           IF ConditionFields[eng.cond[1]].present
                           THEN expectedValue(EngineEvents[eng.ev],
                                         Condition(eng.cond[1], eng.cond[2], eng.cond[3]))
                           ELSE Absent]
  /\ UNCHANGED <<variant, progVars>>

NextRules == EvaluateRules \/ EvaluateCondition

SpecRules == InitRules /\ [][NextRules]_vars


(***************************************************************************)
(* The tenant loop at the grain of single fetches (pollAuditLogs.ts        *)
(* 168-194, processClient 222-235).  A fetch is "inflight" from its call   *)
(* until its promise settles ("done" fulfilled, "failed" rejected).        *)
(* Promise.all fulfils when the three promises are fulfilled and rejects   *)
(* as soon as one of them is rejected.                                     *)
(***************************************************************************)
InitFetch ==
  /\ variant = "table"
  /\ InitRest
  /\ eng = NoEng
  /\ rc = NoRc
  /\ ct = NoCt
  /\ ky = NoKy /\ fn = NoFn
  /\ fx = [NoFx EXCEPT !.pc = "loop", !.idx = 1, !.run = 1]

fetchRest == <<variant, eng, rc, ct, win, ky, fn, clock, storeVars, runHistory, lastPoll, cachedClients, status,
               runVars, alertHist, nCalls, nTicks, runHist>>

(* processClient calls the three fetches in turn.  getAuditEvents runs to  *)
(* its first await (the token request); getSignIns and getSecurityAlerts   *)
(* build their Graph client first (graph.ts:27, 63), outside their try: if *)
(* that raises, their promise is rejected at once.                         *)
StartFetches(graphClientOk) ==
  /\ fx.pc = "loop"
  /\ fx.idx \in 1..Len(Tenants)
  /\ fx' = [fx EXCEPT !.pc = "await",
                      !.fetch[Tenants[fx.idx]] =
                         [s \in SourceSet |->
                            IF s = "AuditLog" \/ graphClientOk THEN "inflight" ELSE "failed"]]
  /\ UNCHANGED fetchRest

(* a fetch in flight settles.  The Graph fetches catch every error of      *)
(* their requests (graph.ts:30-52, 66-88) and fulfil; getAuditEvents is    *)
(* rejected when a start-subscription request raises (managementApi.ts     *)
(* 58-68, 109-115)                                                         *)
FetchSettles(t, s, ok) ==
  /\ fx.fetch[t][s] = "inflight"
  /\ ok \/ s = "AuditLog"
  /\ fx' = [fx EXCEPT !.fetch[t][s] = IF ok THEN "done" ELSE "failed"]
  /\ UNCHANGED fetchRest

(* Promise.all fulfils: the events are evaluated, the alerts processed and *)
(* updateClientStatus(tenantId, 'success') written; the loop moves on      *)
ProcessEvents ==
  /\ fx.pc = "await"
  /\ \A s \in SourceSet : fx.fetch[Tenants[fx.idx]][s] = "done"
  /\ fx' = [fx EXCEPT !.pc = "loop", !.idx = @ + 1]
  /\ UNCHANGED fetchRest

(* Promise.all rejects: processClient fails, the handler's catch writes    *)
(* the tenant's status and the loop moves on                               *)
PromiseAllRejects ==
  /\ fx.pc = "await"
  /\ \E s \in SourceSet : fx.fetch[Tenants[fx.idx]][s] = "failed"
  /\ fx' = [fx EXCEPT !.pc = "loop", !.idx = @ + 1]
  /\ UNCHANGED fetchRest

(* after the last tenant the handler finishes; the next timer run starts   *)
(* with new fetches (settled fetches of the finished run are forgotten)    *)
NextFetchRun ==
  /\ fx.pc = "loop"
  /\ fx.idx = Len(Tenants) + 1
  /\ fx.run < MaxRuns
  /\ fx' = [fx EXCEPT !.idx = 1, !.run = @ + 1,
                      !.fetch = [t \in TenantSet |-> [s \in SourceSet |->
                                   IF fx.fetch[t][s] = "inflight" THEN "inflight" ELSE "none"]]]
  /\ UNCHANGED fetchRest

NextFetch ==
  \/ \E ok \in BOOLEAN : StartFetches(ok)
  \/ \E t \in TenantSet, s \in SourceSet, ok \in BOOLEAN : FetchSettles(t, s, ok)
  \/ ProcessEvents
  \/ PromiseAllRejects
  \/ NextFetchRun

SpecFetch == InitFetch /\ [][NextFetch]_vars


(***************************************************************************)
(* Two processes (function instances) run processAlert on the shared       *)
(* AlertDedup and NotificationState tables (clients.ts:308-341).  Each     *)
(* await of a storage operation is one step; the storage calls succeed.    *)
(***************************************************************************)
InitRace ==
  /\ variant = "file"
  /\ InitRest
  /\ eng = NoEng
  /\ fx = NoFx
  /\ ct = NoCt
  /\ ky = NoKy /\ fn = NoFn
  /\ \E a, b \in Matches :
        rc = [p \in Procs |-> [NoProc EXCEPT !.pc = "isDuplicate",
                                            !.ev = IF p = 1 THEN a.id ELSE b.id]]

raceRest == <<variant, eng, fx, ct, win, ky, fn, clock, runHistory, lastPoll, cachedClients, status,
              runVars, alertHist, nCalls, nTicks, runHist>>

(* await isDuplicate(...): a duplicate returns null *)
RaceIsDuplicate(p) ==
  LET e == EventById(rc[p].ev)
  IN  /\ rc[p].pc = "isDuplicate"
      /\ rc' = [rc EXCEPT ![p].pc =
                  IF isDuplicate(dedup, e.tenant, e.rule, getEventUser(e),
                                 getEventTimestamp(e), TRUE)
                  THEN "done" ELSE "recordAlert"]
      /\ UNCHANGED <<dedup, notif, raceRest>>

(* await recordAlert(...); createAlert *)
RaceRecordAlert(p) ==
  LET e == EventById(rc[p].ev)
  IN  /\ rc[p].pc = "recordAlert"
      /\ dedup' = recordAlert(dedup, e.tenant, e.rule, getEventUser(e),
                              getEventTimestamp(e), TRUE)
      /\ rc' = [rc EXCEPT ![p].pc = "wasNotifiedRecently", ![p].emitted = TRUE]
      /\ UNCHANGED <<notif, raceRest>>

(* await wasNotifiedRecently(...); alert.ShouldNotify = isCritical || !recentlyNotified *)
RaceWasNotifiedRecently(p) ==
  LET e == EventById(rc[p].ev)
      isCritical == RuleSeverity[e.rule] = "Critical"
      recentlyNotified == wasNotifiedRecently(notif, e.tenant, e.rule, getEventUser(e),
                                              clock, TRUE)
      ShouldNotify == isCritical \/ ~recentlyNotified
  IN  /\ rc[p].pc = "wasNotifiedRecently"
      /\ rc' = [rc EXCEPT ![p].ShouldNotify = ShouldNotify,
                          ![p].pc = IF ShouldNotify THEN "recordNotification" ELSE "done"]
      /\ UNCHANGED <<dedup, notif, raceRest>>

(* await recordNotification(...); return alert *)
RaceRecordNotification(p) ==
  LET e == EventById(rc[p].ev)
  IN  /\ rc[p].pc = "recordNotification"
      /\ notif' = recordNotification(notif, e.tenant, e.rule, getEventUser(e), clock,
                                     TRUE, TRUE)
      /\ rc' = [rc EXCEPT ![p].pc = "done"]
      /\ UNCHANGED <<dedup, raceRest>>

NextRace ==
  \E p \in Procs :
     \/ RaceIsDuplicate(p)
     \/ RaceRecordAlert(p)
     \/ RaceWasNotifiedRecently(p)
     \/ RaceRecordNotification(p)

SpecRace == InitRace /\ [][NextRace]_vars


(***************************************************************************)
(* The Clients table under the admin API (clients.ts:33-115, config.ts     *)
(* 413-479) and the orchestrator's updateClientStatus (config.ts:339-366). *)
(* Every awaited storage call is one step.  ct.ops counts the calls made   *)
(* and serves as the clock of new Date().                                  *)
(***************************************************************************)
ClientNames == {"n1", "n2"}
ClientStatuses == {"success", "error"}

InitAdmin ==
  /\ variant = "table"
  /\ InitRest
  /\ eng = NoEng
  /\ fx = NoFx
  /\ rc = NoRc
  /\ ky = NoKy /\ fn = NoFn
  /\ ct = [NoCt EXCEPT !.on = TRUE,
                       !.rows["T1"] = [NoRow EXCEPT !.exists = TRUE, !.name = "n1"]]

adminRest == <<variant, eng, fx, rc, win, ky, fn, clock, storeVars, runHistory, lastPoll, cachedClients,
               status, runVars, alertHist, nCalls, nTicks, runHist>>

Completed(kind, t, after) ==
  [kind |-> kind, tenantId |-> t, before |-> ct.rows[t], after |-> after]

(* config.ts:413-427: upsertEntity(..., 'Replace') with lastPoll null, status '' *)
AddClient(t, name) ==
  LET row == [exists |-> TRUE, name |-> name, lastPoll |-> [present |-> FALSE, at |-> 0],
              status |-> ""]
  IN  /\ ct.on /\ ct.ops < MaxOps
      /\ ct.admin.pc = "idle"
      /\ ct' = [ct EXCEPT !.rows[t] = row, !.ops = @ + 1,
                          !.last = Completed("addClient", t, row)]
      /\ UNCHANGED adminRest

(* config.ts:433-442: updateClient reads the row; 404 returns false *)
UpdateClientRead(t, name) ==
  /\ ct.on /\ ct.ops < MaxOps
  /\ ct.admin.pc = "idle"
  /\ ct' = IF ct.rows[t].exists
           THEN [ct EXCEPT !.admin = [NoCall EXCEPT !.pc = "read", !.tenantId = t,
                                                   !.name = name, !.existing = ct.rows[t]],
                           !.ops = @ + 1]
           ELSE [ct EXCEPT !.ops = @ + 1,
                           !.last = Completed("updateClient", t, ct.rows[t])]
  /\ UNCHANGED adminRest

(* config.ts:444-454: upsertEntity with the new name and the lastPoll and  *)
(* status that were read                                                   *)
UpdateClientWrite ==
  LET t == ct.admin.tenantId
      row == [exists |-> TRUE, name |-> ct.admin.name,
              lastPoll |-> ct.admin.existing.lastPoll,
              status |-> ct.admin.existing.status]
  IN  /\ ct.admin.pc = "read"
      /\ ct' = [ct EXCEPT !.rows[t] = row, !.admin = NoCall,
                          !.last = Completed("updateClient", t, row)]
      /\ UNCHANGED adminRest

(* config.ts:467-479 *)
DeleteClient(t) ==
  /\ ct.on /\ ct.ops < MaxOps
  /\ ct.admin.pc = "idle"
  /\ ct' = [ct EXCEPT !.rows[t] = NoRow, !.ops = @ + 1,
                      !.last = Completed("deleteClient", t, NoRow)]
  /\ UNCHANGED adminRest

(* config.ts:311-333: getClients lists the rows *)
GetClients(t) ==
  /\ ct.on /\ ct.ops < MaxOps
  /\ ct.admin.pc = "idle"
  /\ ct' = [ct EXCEPT !.ops = @ + 1, !.last = Completed("getClients", t, ct.rows[t])]
  /\ UNCHANGED adminRest

(* config.ts:346-347: updateClientStatus reads the row of a tenant of the  *)
(* run's client list; 404 returns                                          *)
UpdateClientStatusRead(t, newStatus) ==
  /\ ct.on /\ ct.ops < MaxOps
  /\ ct.orch.pc = "idle"
  /\ ct' = IF ct.rows[t].exists
           THEN [ct EXCEPT !.orch = [NoCall EXCEPT !.pc = "read", !.tenantId = t,
                                                  !.status = newStatus,
                                                  !.existing = ct.rows[t]],
                           !.ops = @ + 1]
           ELSE [ct EXCEPT !.ops = @ + 1,
                           !.last = Completed("updateClientStatus", t, ct.rows[t])]
  /\ UNCHANGED adminRest

(* config.ts:348-358: upsertEntity with the name that was read, lastPoll   *)
(* new Date() and the status                                               *)
UpdateClientStatusWrite ==
  LET t == ct.orch.tenantId
      row == [exists |-> TRUE, name |-> ct.orch.existing.name,
              lastPoll |-> [present |-> TRUE, at |-> ct.ops],
              status |-> ct.orch.status]
  IN  /\ ct.orch.pc = "read"
      /\ ct' = [ct EXCEPT !.rows[t] = row, !.orch = NoCall,
                          !.last = Completed("updateClientStatus", t, row)]
      /\ UNCHANGED adminRest

NextAdmin ==
  \/ \E t \in TenantSet, n \in ClientNames : AddClient(t, n)
  \/ \E t \in TenantSet, n \in ClientNames : UpdateClientRead(t, n)
  \/ UpdateClientWrite
  \/ \E t \in TenantSet : DeleteClient(t)
  \/ \E t \in TenantSet : GetClients(t)
  \/ \E t \in TenantSet, st \in ClientStatuses : UpdateClientStatusRead(t, st)
  \/ UpdateClientStatusWrite

SpecAdmin == InitAdmin /\ [][NextAdmin]_vars

(***************************************************************************)
(* The alert-state store asked about two matches in turn: the first is     *)
(* recorded (recordAlert, recordNotification), then the second is looked   *)
(* up (isDuplicate, wasNotifiedRecently) one minute later.  Both event     *)
(* times are the time of recording, so only the keys decide the answers.   *)
(***************************************************************************)
InitKeys ==
  /\ variant = "file"
  /\ InitRest
  /\ eng = NoEng
  /\ fx = NoFx
  /\ rc = NoRc
  /\ ct = NoCt
  /\ fn = NoFn
  /\ \E a, b \in KeyMatches :
        ky = [NoKy EXCEPT !.pc = "record", !.a = a, !.b = b,
                          !.dedup = [k \in KeyStateKeys |-> NoDedup],
                          !.notif = [k \in KeyStateKeys |-> NoNotif]]

keysRest == <<variant, eng, fx, rc, ct, win, fn, storeVars, runHistory, lastPoll, cachedClients,
              status, runVars, alertHist, nCalls, nTicks, runHist>>

(* processAlert's store writes for the first match *)
RecordFirst ==
  /\ ky.pc = "record"
  /\ LET m == ky.a
         user == getEventUser(m)
     IN  ky' = [ky EXCEPT
                  !.pc = "lookup",
                  !.dedup = recordAlert(ky.dedup, m.tenant, m.rule, user, clock, TRUE),
                  !.notif = recordNotification(ky.notif, m.tenant, m.rule, user, clock,
                                               TRUE, TRUE)]
  /\ clock' = clock + Minute
  /\ UNCHANGED keysRest

(* processAlert's store reads for the second match *)
LookupSecond ==
  /\ ky.pc = "lookup"
  /\ LET m == ky.b
         user == getEventUser(m)
     IN  ky' = [ky EXCEPT
                  !.pc = "done",
                  !.duplicate = isDuplicate(ky.dedup, m.tenant, m.rule, user,
                                            clock - Minute, TRUE),
                  !.throttled = wasNotifiedRecently(ky.notif, m.tenant, m.rule, user,
                                                    clock, TRUE)]
  /\ UNCHANGED <<clock, keysRest>>

NextKeys == RecordFirst \/ LookupSecond

SpecKeys == InitKeys /\ [][NextKeys]_vars

(***************************************************************************)
(* Single calls of functions of the program.                               *)
(***************************************************************************)

(* ---- pollAuditLogs.ts:352-379.  An error is given by the patterns that   *)
(* String(error) includes and by the length of its message                  *)
ErrorPatterns ==
  {"AADSTS700016", "not found in the directory", "AADSTS65001", "consent", "AADSTS90002",
   "Tenant", "not found", "403", "Forbidden", "Authorization_RequestDenied",
   "UnifiedAuditLogIsNotEnabled", "audit log"}

Fixed(text) == [original |-> FALSE, text |-> text, length |-> 0]
Original(length) == [original |-> TRUE, text |-> "", length |-> length]

(* String.prototype.slice(0, n) on a text of the given length *)
sliceLength(length, n) == IF length < n THEN length ELSE n

(* parseClientError that tests the permission patterns first *)
parseClientError_permissionFirst(error) ==
  LET has(p) == p \in error.includes
  IN  IF has("403") \/ has("Forbidden") \/ has("Authorization_RequestDenied")
        THEN [status |-> "permissionDenied", message |-> Fixed("Insufficient permissions")]
      ELSE IF has("AADSTS700016") \/ has("not found in the directory")
        THEN [status |-> "appNotConsented",
              message |-> Fixed("App registration not consented in tenant")]
      ELSE IF has("AADSTS65001") \/ has("consent")
        THEN [status |-> "appNotConsented", message |-> Fixed("Admin consent required")]
      ELSE IF has("AADSTS90002") \/ (has("Tenant") /\ has("not found"))
        THEN [status |-> "tenantNotFound", message |-> Fixed("Tenant not found")]
      ELSE IF has("UnifiedAuditLogIsNotEnabled") \/ has("audit log")
        THEN [status |-> "auditLogDisabled",
              message |-> Fixed("Unified audit log not enabled")]
      ELSE [status |-> "error", message |-> Original(sliceLength(error.length, 500))]

parseClientError(error) ==
  LET has(p) == p \in error.includes
  IN  IF has("AADSTS700016") \/ has("not found in the directory")
        THEN [status |-> "appNotConsented",
              message |-> Fixed("App registration not consented in tenant")]
      ELSE IF has("AADSTS65001") \/ has("consent")
        THEN [status |-> "appNotConsented", message |-> Fixed("Admin consent required")]
      ELSE IF has("AADSTS90002") \/ (has("Tenant") /\ has("not found"))
        THEN [status |-> "tenantNotFound", message |-> Fixed("Tenant not found")]
      ELSE IF has("403") \/ has("Forbidden") \/ has("Authorization_RequestDenied")
        THEN [status |-> "permissionDenied", message |-> Fixed("Insufficient permissions")]
      ELSE IF has("UnifiedAuditLogIsNotEnabled") \/ has("audit log")
        THEN [status |-> "auditLogDisabled",
              message |-> Fixed("Unified audit log not enabled")]
      ELSE [status |-> "error", message |-> Original(sliceLength(error.length, 500))]

(* the errors tried: a text that includes "not found in the directory"      *)
(* includes "not found"                                                     *)
MessageLengths == {0, 499, 500, 501, 1200}
Errors ==
  {e \in [includes : SUBSET ErrorPatterns, length : MessageLengths] :
      "not found in the directory" \in e.includes => "not found" \in e.includes}

(* ---- part_006:178-206.  A summary is given by its length; a field of    *)
(* the event is a string of some length or is missing, and a missing field  *)
(* is written "undefined" by the template literal                           *)
NoField == [present |-> FALSE, length |-> 0]
Field(length) == [present |-> TRUE, length |-> length]
templateLength(field) == IF field.present THEN field.length ELSE Len("undefined")

(* the texts between the fields of the three template literals *)
SummaryTexts ==
  [AuditLog |-> <<"Operation: ", ", User: ", ", Workload: ">>,
   SignIn |-> <<"User: ", ", App: ", ", Risk: ", ", IP: ">>,
   SecurityAlert |-> <<"Title: ", ", Category: ", ", Severity: ">>]

RECURSIVE summaryLength(_, _, _)
summaryLength(texts, fields, i) ==
  IF i > Len(texts) THEN 0
  ELSE Len(texts[i]) + templateLength(fields[i]) + summaryLength(texts, fields, i + 1)

(* String.prototype.substring(0, n) on a text of the given length *)
substringLength(length, n) == IF length < n THEN length ELSE n

getEventSummary(event, source) ==
  LET maxLength == 500
      summary == summaryLength(SummaryTexts[source], event, 1)
  IN  IF summary > maxLength
        THEN [summary |-> summary, length |-> substringLength(summary, maxLength) + Len("...")]
      ELSE [summary |-> summary, length |-> summary]

(* the events tried: one field value per field the source's template reads *)
RuleSources == {"AuditLog", "SignIn", "SecurityAlert"}
FieldLengths == {0, 4, 460, 461, 600}
FieldValues == {NoField} \cup {Field(l) : l \in FieldLengths}
SummaryInputs ==
  UNION {[source : {s}, event : [1..Len(SummaryTexts[s]) -> FieldValues]] : s \in RuleSources}

(* ---- config.ts:502-569.  A number is the sequence of its decimal digits, *)
(* most significant first and without leading zeros; a string is the        *)
(* sequence of its characters.  A run is given by the getTime() of its      *)
(* startTime                                                                *)
digitChars == <<"0", "1", "2", "3", "4", "5", "6", "7", "8", "9">>

(* the i-th digit of n counted from the right *)
digitAt(n, i) == IF i <= Len(n) THEN n[Len(n) - i + 1] ELSE 0

RECURSIVE subtractDigits(_, _, _, _)
subtractDigits(a, b, i, borrow) ==
  IF i > Len(a) THEN <<>>
  ELSE LET d == digitAt(a, i) - digitAt(b, i) - borrow
       IN  subtractDigits(a, b, i + 1, IF d < 0 THEN 1 ELSE 0)
             \o <<IF d < 0 THEN d + 10 ELSE d>>

RECURSIVE stripZeros(_)
stripZeros(n) == IF Len(n) > 1 /\ n[1] = 0 THEN stripZeros(Tail(n)) ELSE n

(* a - b for a >= b *)
minus(a, b) == stripZeros(subtractDigits(a, b, 1, 0))

(* Number.prototype.toString() *)
toString(n) == [i \in 1..Len(n) |-> digitChars[n[i] + 1]]

(* padStart that leaves the string as it is *)
padStart_none(s, targetLength, padString) == s

(* String.prototype.padStart with a one-character padString *)
padStart(s, targetLength, padString) ==
  IF Len(s) >= targetLength THEN s
  ELSE [i \in 1..(targetLength - Len(s)) |-> padString] \o s

maxTicks == <<9, 9, 9, 9, 9, 9, 9, 9, 9, 9, 9, 9, 9>>

invertedTimestamp(ticks) == padStart(toString(minus(maxTicks, ticks)), 13, "0")

(* logRun: upsertEntity(..., 'Replace') under the row key of the start time *)
logRun(table, startTime) ==
  LET rowKey == invertedTimestamp(startTime)
  IN  {r \in table : r.rowKey # rowKey} \cup {[rowKey |-> rowKey, startTime |-> startTime]}

(* the order of strings of digit characters by code unit *)
codeUnit(c) == CHOOSE i \in 1..Len(digitChars) : digitChars[i] = c
RECURSIVE stringLess(_, _)
stringLess(a, b) ==
  IF b = <<>> THEN FALSE
  ELSE IF a = <<>> THEN TRUE
  ELSE IF codeUnit(Head(a)) # codeUnit(Head(b)) THEN codeUnit(Head(a)) < codeUnit(Head(b))
  ELSE stringLess(Tail(a), Tail(b))

(* listEntities(): the rows in ascending rowKey order *)
RECURSIVE listEntities(_)
listEntities(table) ==
  IF table = {} THEN <<>>
  ELSE LET first == CHOOSE r \in table :
                      \A o \in table \ {r} : stringLess(r.rowKey, o.rowKey)
       IN  <<first>> \o listEntities(table \ {first})

(* getRunHistory(limit): the loop breaks once count >= limit *)
RECURSIVE takeRuns(_, _, _)
takeRuns(entities, limit, count) ==
  IF entities = <<>> \/ count >= limit THEN <<>>
  ELSE <<Head(entities).startTime>> \o takeRuns(Tail(entities), limit, count + 1)

getRunHistory(table, limit) == takeRuns(listEntities(table), limit, 0)

(* the start times tried, from 0 to 9999999999999 *)
StartTimes ==
  {<<0>>, <<9>>,
   <<1, 7, 6, 2, 2, 7, 5, 3, 5, 2, 0, 0, 0>>,
   <<1, 7, 6, 2, 2, 7, 5, 3, 5, 2, 0, 0, 1>>,
   <<9, 0, 0, 0, 0, 0, 0, 0, 0, 0, 0, 0, 0>>,
   <<9, 9, 9, 9, 9, 9, 9, 9, 9, 9, 9, 8, 9>>,
   <<9, 9, 9, 9, 9, 9, 9, 9, 9, 9, 9, 9, 0>>,
   maxTicks}

InitCalls ==
  /\ variant = "table"
  /\ InitRest
  /\ eng = NoEng
  /\ fx = NoFx
  /\ rc = NoRc
  /\ ct = NoCt
  /\ ky = NoKy
  /\ \/ \E e \in Errors : fn = [NoFn EXCEPT !.op = "parseClientError", !.in = e]
     \/ \E i \in SummaryInputs : fn = [NoFn EXCEPT !.op = "getEventSummary", !.in = i]
     \/ fn = [NoFn EXCEPT !.op = "runHistory", !.in = {},
                          !.out = [limit |-> 0, runs |-> <<>>]]

callsRest == <<variant, eng, fx, rc, ct, win, ky, clock, storeVars, runHistory, lastPoll,
               cachedClients, status, runVars, alertHist, nCalls, nTicks, runHist>>

ParseClientError ==
  /\ fn.op = "parseClientError"
  /\ fn.calls = 0
  /\ fn' = [fn EXCEPT !.out = parseClientError(fn.in), !.calls = 1]
  /\ UNCHANGED callsRest

(* createAlert's RawEventSummary: getEventSummary(event, source) *)
GetEventSummary ==
  /\ fn.op = "getEventSummary"
  /\ fn.calls = 0
  /\ fn' = [fn EXCEPT !.out = getEventSummary(fn.in.event, fn.in.source), !.calls = 1]
  /\ UNCHANGED callsRest

(* one call logRun(run); fn.in is the RunHistory table *)
LogRun ==
  /\ fn.op = "runHistory"
  /\ Cardinality(fn.in) <= MaxRuns
  /\ \E t \in StartTimes :
        fn' = [fn EXCEPT !.in = logRun(fn.in, t), !.calls = 1,
                         !.out = [limit |-> 0, runs |-> <<>>]]
  /\ UNCHANGED callsRest

(* GET /api/runs: handleGetRuns passes a limit of 1 or more *)
GetRunHistory ==
  /\ fn.op = "runHistory"
  /\ \E limit \in 1..MaxRuns :
        fn' = [fn EXCEPT !.out = [limit |-> limit, runs |-> getRunHistory(fn.in, limit)],
                         !.calls = 2]
  /\ UNCHANGED callsRest

NextCalls == ParseClientError \/ GetEventSummary \/ LogRun \/ GetRunHistory

SpecCalls == InitCalls /\ [][NextCalls]_vars


(***************************************************************************)
(* Properties of the timer handler.                                        *)
(***************************************************************************)
Max(a, b) == IF a > b THEN a ELSE b

(* the client record the window of tenant t is selected from *)
LoadedClient(t) == IF variant = "file" THEN cachedClients[t] ELSE snap[t]

(* C1: when the processing of a tenant fails in a run, the tenant's stored   *)
(* lastPoll keeps the value it had before the run.                           *)
C1_FailureKeepsLastPoll ==
  \A t \in TenantSet : outcome[t] = "failed" => lastPoll[t] = snap[t]

(* C2: across runs executed one after another a tenant's stored lastPoll     *)
(* never decreases, and a run that processes the tenant successfully leaves  *)
(* lastPoll set, at a value not earlier than the one before the run.         *)
C2_LastPollMonotonic ==
  [][\A t \in TenantSet :
       /\ lastPoll[t].present =>
             lastPoll'[t].present /\ lastPoll'[t].at >= lastPoll[t].at
       /\ outcome'[t] = "success" =>
             /\ lastPoll'[t].present
             /\ snap'[t].present => lastPoll'[t].at >= snap'[t].at]_vars

C2_Witness ==
  \E t \in TenantSet : /\ outcome[t] = "success"
                       /\ snap[t].present
                       /\ lastPoll[t].at > snap[t].at

(* C3: the window of a tenant starts at now - 60 min when the tenant has no  *)
(* lastPoll and at max(lastPoll, now - 360 min) otherwise, now being the     *)
(* instant captured at the start of the run; so since >= now - 360 min.      *)
C3_WindowStart ==
  pc = "events" =>
    LET c == LoadedClient(Tenants[idx])
    IN  /\ ~c.present => since = now - 60 * Minute
        /\ c.present => since = Max(c.at, now - 360 * Minute)
        /\ since >= now - 360 * Minute

C3_Witness ==
  /\ pc = "events"
  /\ LoadedClient(Tenants[idx]).present
  /\ LoadedClient(Tenants[idx]).at < now - 360 * Minute
  /\ since = now - 360 * Minute
  /\ now < clock

(* C4: a failure while processing one tenant never aborts the run: the later *)
(* tenants are processed and the steps after the loop run.                   *)
C4_RunNeverAborts ==
  runEnd # "aborted"

(* C5: an event that produced an emitted alert in one run never produces a *)
(* second emitted alert when a later run fetches it again.  (A run fetches   *)
(* an event once, so two alerts of one event come from two runs.)            *)
C5_NoSecondAlert ==
  \A i \in EventIds : admitCount[i] <= 1

(***************************************************************************)
(* Properties of processAlert, read off the record of the last call.       *)
(***************************************************************************)

(* C6: in a sequence of matches with one (tenantId, ruleName, user) whose    *)
(* event times all lie less than 5 minutes from the first one, the first     *)
(* yields an alert and the others return null; a match whose event time is   *)
(* 5 minutes or more away from the recorded timestamp is admitted.           *)
C6_DedupWindow ==
  last.id # 0 =>
    /\ last.first => ~last.isNull
    /\ ~last.first /\ last.near => last.isNull
    /\ last.away => ~last.isNull

EntryUpdated ==
  /\ last.postNotif.present
  /\ last.postNotif.lastNotified = last.at
  /\ last.postNotif.alertCount = last.priorNotif.alertCount + 1

Refetchable(e) ==
  \E c \in (IF variant = "file" THEN {lastPoll[e.tenant], cachedClients[e.tenant]}
            ELSE {lastPoll[e.tenant]}) :
     ~c.present \/ c.at <= e.time

(* C9: when the sink upload of a run fails, the alerts of that run's batch  *)
(* are delivered by a later run; for that, a later run must be able to       *)
(* fetch their events again.                                                 *)
C9_FailedUploadRedelivered ==
  sink.result = "failed" => \A i \in sink.batch : Refetchable(EventById(i))

(* C10: every alert admitted by the dedup layer in a run is part of the     *)
(* batch uploaded to the sink, whatever its ShouldNotify.                    *)
C10_AdmittedInBatch ==
  pc \in {"notify", "cleanup"} => runAdmitted \subseteq sink.batch

(***************************************************************************)
(* Failure policy of the alert-state store.  Every statement of the five   *)
(* operations is inside a try whose catch returns, so a storage failure    *)
(* shows only in what the operation returns or leaves unwritten.           *)
(***************************************************************************)

(* C11: a failed storage call never stops processAlert: a failed read acts  *)
(* as "entry absent" (isDuplicate and wasNotifiedRecently answer false, the *)
(* count restarts at 1), a failed write leaves the table as it was, and the *)
(* alert is emitted.                                                        *)
C11_FailOpen ==
  last.id # 0 =>
    /\ ~last.f.dupRead => ~last.isNull
    /\ ~last.isNull /\ ~last.f.dupWrite => last.postDedup = last.priorDedup
    /\ ~last.isNull /\ ~last.f.notifRead => last.ShouldNotify
    /\ ~last.isNull /\ last.ShouldNotify /\ ~last.f.notifWrite =>
          last.postNotif = last.priorNotif
    /\ ~last.isNull /\ last.ShouldNotify /\ last.f.notifWrite /\ ~last.f.countRead =>
          last.postNotif.alertCount = 1

C11_Witness ==
  /\ last.id # 0
  /\ ~last.f.dupRead /\ ~last.f.dupWrite /\ ~last.f.notifRead /\ ~last.f.notifWrite
  /\ last.priorDedup.present
  /\ Abs(getEventTimestamp(EventById(last.id)) - last.priorDedup.timestamp)
        < DEDUP_WINDOW_MS
  /\ last.priorNotif.present
  /\ last.at - last.priorNotif.lastNotified < NOTIFICATION_WINDOW_MS
  /\ ~last.isNull
  /\ last.ShouldNotify

(* C12: the sweeper is not needed for correctness: every processAlert call  *)
(* returns what it would return had cleanupExpiredEntries never run (the    *)
(* same alert or null, the same ShouldNotify).                              *)
C12_SweeperNotNeeded ==
  last.id # 0 =>
    /\ last.isNull = last.noSweepNull
    /\ last.ShouldNotify = last.noSweepNotify

(* C13: an authentication failure of one of a tenant's fetches is re-raised *)
(* to the handler, so the tenant's run does not count as a success.         *)
C13_AuthFailureFailsTenant ==
  \A t \in TenantSet : fetchFault[t] = "auth" => outcome[t] # "success"


(* Low < Medium < High < Critical *)
SeverityScale == <<"Low", "Medium", "High", "Critical">>
AtLeast(severity, minimum) ==
  \E i, j \in 1..Len(SeverityScale) :
     SeverityScale[i] = severity /\ SeverityScale[j] = minimum /\ i >= j

(* the alerts of the batch that pass the severity and the throttle filter *)
Passing(config) ==
  {allAlerts[i].id : i \in {j \in 1..Len(allAlerts) :
      /\ AtLeast(AlertSeverity(allAlerts[j]), config.minimumSeverity)
      /\ allAlerts[j].ShouldNotify # FALSE}}

(* C17: in a run the notifier posts at most one card; a posted card holds   *)
(* exactly the alerts of the batch whose severity is at least              *)
(* minimumSeverity and whose ShouldNotify is not false; nothing is posted  *)
(* when notifications are disabled, the webhook URL is empty, or no alert  *)
(* passes both filters.                                                    *)
C17_NotifierCard ==
  /\ card.posts <= 1
  /\ card.result # "none" =>
       LET silent == \/ ~card.config.enabled
                     \/ card.config.webhookUrl = ""
                     \/ Passing(card.config) = {}
       IN  /\ silent => (card.posts = 0 /\ card.result = "skipped" /\ card.alerts = {})
           /\ ~silent => (card.posts = 1 /\ card.alerts = Passing(card.config))

(* a card was posted without a throttled alert of the batch, and without an *)
(* alert below the minimum severity                                        *)
C17_Witness ==
  /\ card.result = "sent"
  /\ card.posts = 1
  /\ card.alerts # {}
  /\ \E i \in 1..Len(allAlerts) :
        allAlerts[i].ShouldNotify = FALSE /\ allAlerts[i].id \notin card.alerts
  /\ \E i \in 1..Len(allAlerts) :
        /\ allAlerts[i].ShouldNotify
        /\ ~AtLeast(AlertSeverity(allAlerts[i]), card.config.minimumSeverity)


(* C18: a failed sink upload is followed by the notifier, invoked on the    *)
(* same batch; a failed webhook post is followed by the sweeper; neither   *)
(* failure changes the alert state tables or any tenant's lastPoll or      *)
(* status.                                                                 *)
C18_FailuresIsolated ==
  [][/\ (pc = "upload" /\ sink'.result = "failed") =>
          /\ pc' = "notify"
          /\ sink'.batch = AlertIds(allAlerts)
          /\ UNCHANGED <<allAlerts, dedup, notif, lastPoll, status>>
     /\ (pc = "notify" /\ sink.result = "failed") =>
          /\ card'.result # "none"
          /\ sink.batch = AlertIds(allAlerts)
          /\ card' = [result |-> card'.result, alerts |-> cardAlerts(allAlerts, card'.config),
                      posts |-> card'.posts, config |-> card'.config]
     /\ (pc = "notify" /\ card'.result = "failed") =>
          /\ pc' = "cleanup"
          /\ UNCHANGED <<allAlerts, dedup, notif, lastPoll, status>>
     /\ (pc = "cleanup" /\ card.result = "failed") =>
          /\ pc' = "idle"
          /\ runEnd' = "complete"
          /\ dedup' = cleanupDedup(dedup, clock, "ok")
          /\ notif' = cleanupNotif(notif, clock, "ok")
          /\ UNCHANGED <<lastPoll, status>>]_vars

(* the upload and the webhook post of one run have both failed, with alert *)
(* state recorded and a tenant's lastPoll written in this run              *)
C18_Witness ==
  /\ pc = "cleanup"
  /\ sink.result = "failed"
  /\ card.result = "failed"
  /\ \E k \in StateKeys : dedup[k].present
  /\ \E t \in TenantSet : lastPoll[t].present


(* C19: a completed run has left exactly one summary in the RunHistory     *)
(* table, with the run's start time and status success or partial.         *)
C19_RunSummaryPersisted ==
  (pc = "idle" /\ runEnd = "complete") =>
     /\ Cardinality({r \in runHistory : r.startTime = now}) = 1
     /\ \A r \in runHistory : r.startTime = now => r.status \in {"success", "partial"}


(***************************************************************************)
(* Properties of the rules engine.                                         *)
(***************************************************************************)
Evaluated == eng.mode = "rules" /\ eng.calls > 0
LoadedRules == getRules(eng.rules)

(* the tenant scope of a rule: no tenantIds, an empty list, or a list that *)
(* holds the supplied tenantId                                             *)
InTenantScope(rule, tenantId) ==
  LET ids == IF rule.tenantIds.present THEN Range(rule.tenantIds.list) ELSE {}
  IN  ids = {} \/ (tenantId.present /\ tenantId.id \in ids)

(* the conditions of a rule hold for the event under the rule's match mode *)
ConditionsHold(rule, event) ==
  /\ rule.conditions.rules.present
  /\ LET conds == rule.conditions.rules.list
     IN  IF rule.conditions.match = "all"
         THEN conds # <<>> /\ \A i \in 1..Len(conds) :
                                 evaluateCondition(event, conds[i]) = Returns(TRUE)
         ELSE \E i \in 1..Len(conds) : evaluateCondition(event, conds[i]) = Returns(TRUE)

(* some exception of the rule evaluates to true for the event *)
Excepted(rule, event) ==
  /\ rule.exceptions.present
  /\ \E i \in 1..Len(rule.exceptions.list) :
        evaluateCondition(event, rule.exceptions.list[i]) = Returns(TRUE)

Qualifies(rule, event, source, tenantId) ==
  /\ rule.enabled
  /\ rule.source = source
  /\ InTenantScope(rule, tenantId)
  /\ ConditionsHold(rule, event)
  /\ ~Excepted(rule, event)

(* C14: a rule returned by evaluateRules is enabled, has the requested      *)
(* source, is in tenant scope, has its conditions satisfied under its match *)
(* mode, and has no exception that evaluates to true for the event.         *)
C14_ReturnedRuleQualifies ==
  (Evaluated /\ eng.result.kind = "rule") =>
     Qualifies(LoadedRules[eng.result.index], EngineEvents[eng.ev], eng.source, eng.tenantId)

(* a tenant-scoped rule with exceptions was returned *)
C14_Witness ==
  /\ Evaluated
  /\ eng.result.kind = "rule"
  /\ LET rule == LoadedRules[eng.result.index]
     IN  /\ rule.tenantIds.present /\ rule.tenantIds.list # <<>>
         /\ rule.exceptions.present /\ rule.exceptions.list # <<>>
         /\ Len(rule.conditions.rules.list) > 1

(* C15: evaluateRules returns the same result on every call with the same  *)
(* inputs: the first rule in loader order that qualifies, null when no     *)
(* rule qualifies.                                                         *)
C15_FirstMatch ==
  Evaluated =>
     LET q == {i \in 1..Len(LoadedRules) :
                 Qualifies(LoadedRules[i], EngineEvents[eng.ev], eng.source, eng.tenantId)}
     IN  /\ eng.calls > 1 => eng.result = eng.previous
         /\ q = {} => eng.result = NullResult
         /\ q # {} => eng.result = [kind |-> "rule",
                                    index |-> CHOOSE i \in q : \A j \in q : i <= j]

(* C16: a rule with a non-empty tenantIds list passes the filter only for  *)
(* a supplied tenantId of the list; an enabled rule of the requested       *)
(* source without tenantIds, or with an empty list, passes it for every    *)
(* tenantId argument, the missing one included.                            *)
C16_TenantScoping ==
  Evaluated =>
     \A i \in 1..Len(LoadedRules) :
        LET rule == LoadedRules[i]
            scoped == rule.tenantIds.present /\ rule.tenantIds.list # <<>>
        IN  /\ (scoped /\ i \in eng.considered) =>
                  (eng.tenantId.present /\ eng.tenantId.id \in Range(rule.tenantIds.list))
            /\ (~scoped /\ rule.enabled /\ rule.source = eng.source) => i \in eng.considered

(* no tenantId supplied: a scoped rule was skipped and an unscoped rule,   *)
(* behind it in the list, was considered                                   *)
C16_Witness ==
  /\ Evaluated
  /\ ~eng.tenantId.present
  /\ Len(LoadedRules) = 2
  /\ LoadedRules[1].enabled /\ LoadedRules[1].source = eng.source
  /\ LoadedRules[1].tenantIds.present /\ LoadedRules[1].tenantIds.list # <<>>
  /\ 1 \notin eng.considered
  /\ 2 \in eng.considered
  /\ LoadedRules[2].tenantIds.present /\ LoadedRules[2].tenantIds.list = <<>>

(* C20: a NotEquals condition whose field path resolves to undefined or    *)
(* null in the event evaluates to false, whatever the expected value.      *)
C20_NotEqualsAbsentIsFalse ==
  LET condition == Condition(eng.cond[1], eng.cond[2], eng.cond[3])
  IN  (/\ eng.mode = "cond"
       /\ eng.calls > 0
       /\ condition.operator = "NotEquals"
       /\ condition.field.present
       /\ getNestedValue(EngineEvents[eng.ev], condition.field.s).t \in {"undefined", "null"})
      => eng.condResult = Returns(FALSE)

(* the rule has a conditions list, and it is empty *)
NoConditions(rule) ==
  rule.conditions.rules.present /\ rule.conditions.rules.list = <<>>

(* C31: a rule whose conditions list is empty never matches any event,      *)
(* under match mode 'all' as well as 'any': evaluateRules never returns it. *)
C31_EmptyConditionsNeverMatch ==
  (Evaluated /\ eng.result.kind = "rule") => ~NoConditions(LoadedRules[eng.result.index])

(* rules without conditions, one of each match mode, passed the filter and  *)
(* the call returned null                                                   *)
C31_Witness ==
  /\ Evaluated
  /\ eng.result = NullResult
  /\ \E i, j \in eng.considered :
        /\ NoConditions(LoadedRules[i]) /\ LoadedRules[i].conditions.match = "all"
        /\ NoConditions(LoadedRules[j]) /\ LoadedRules[j].conditions.match = "any"

(* the condition whose evaluation the engine state records *)
EvaluatedCondition == Condition(eng.cond[1], eng.cond[2], eng.cond[3])
ConditionEvaluated == eng.mode = "cond" /\ eng.calls > 0

(* C32: a condition with operator Equals or Contains evaluates to false     *)
(* whenever its field path resolves to absent in the event (missing key,    *)
(* integer segment on a mapping without that key, non-integer segment on a  *)
(* sequence, scalar intermediate), for every expected value, the empty      *)
(* string included.                                                         *)
C32_EqualsContainsAbsentIsFalse ==
  (/\ ConditionEvaluated
   /\ EvaluatedCondition.operator \in {"Equals", "Contains"}
   /\ EvaluatedCondition.field.present
   /\ getNestedValue(EngineEvents[eng.ev], EvaluatedCondition.field.s).t = "undefined")
  => eng.condResult = Returns(FALSE)

(* what a token with the given path stands for in the event *)
TokenText(event, path) ==
  LET v == getNestedValue(event, trim(path))
  IN  IF v.t \in {"undefined", "null"} THEN <<>> ELSE String(v)

HasToken(s) == \E i \in 1..Len(s) : tokenEnd(s, i) # 0

(* s is before \o {{path}} \o after, with no token in before or after *)
OneToken(s, before, path, after) ==
  /\ s = before \o <<"{", "{">> \o path \o <<"}", "}">> \o after
  /\ path # <<>>
  /\ \A i \in 1..Len(path) : path[i] # "}"
  /\ \A i \in 1..Len(before) : before[i] # "{"
  /\ ~HasToken(after)

(* C33: before the operator is applied, every {{path}} token of the        *)
(* expected value is replaced by the string form of the event field at the *)
(* trimmed path, and by the empty string when that field is absent or      *)
(* null; text outside the tokens is unchanged, and a condition without a   *)
(* value is not interpolated.                                              *)
C33_Interpolation ==
  (ConditionEvaluated /\ EvaluatedCondition.field.present) =>
     LET value == EvaluatedCondition.value
         event == EngineEvents[eng.ev]
     IN  /\ ~value.present => eng.expected = Absent
         /\ value.present /\ ~HasToken(value.s) => eng.expected = value
         /\ value.present =>
               \A i \in 0..Len(value.s), j \in 0..Len(value.s) :
                  LET before == SubSeq(value.s, 1, i)
                      path == SubSeq(value.s, i + 3, j - 2)
                      after == SubSeq(value.s, j + 1, Len(value.s))
                  IN  (i + 4 < j /\ OneToken(value.s, before, path, after)) =>
                         eng.expected = Text(before \o TokenText(event, path) \o after)

(* a token with white space around its path, replaced by the text of an   *)
(* array element's field                                                  *)
C33_Witness ==
  /\ ConditionEvaluated
  /\ EvaluatedCondition.field.present
  /\ EvaluatedCondition.value = Text(<<"{", "{", " ", "T", ".", "0", ".", "N", " ", "}", "}">>)
  /\ eng.expected = Text(sBob)


(***************************************************************************)
(* Properties of the tenant loop at the grain of single fetches.           *)
(***************************************************************************)
InFlight(t) == \E s \in SourceSet : fx.fetch[t][s] = "inflight"
Current(t) == fx.pc = "await" /\ fx.idx \in 1..Len(Tenants) /\ Tenants[fx.idx] = t

(* C21: processClient neither returns nor fails before its three fetches   *)
(* have completed: a tenant with a fetch in flight is the tenant the       *)
(* handler is awaiting.                                                    *)
C21_NoFetchOutlivesTenant ==
  \A t \in TenantSet : InFlight(t) => Current(t)

(* C22: tenants are processed one after another: at no time are two        *)
(* different tenants active (awaited by the handler or with a fetch in     *)
(* flight).                                                                *)
C22_TenantsSequential ==
  \A t1, t2 \in TenantSet :
     ((InFlight(t1) \/ Current(t1)) /\ (InFlight(t2) \/ Current(t2))) => t1 = t2


(***************************************************************************)
(* Properties of concurrent processAlert calls.                            *)
(***************************************************************************)
(* C23: when two processes have run processAlert for matches of the same   *)
(* key whose event times are less than 5 minutes apart, at most one of the *)
(* two is emitted and, for a rule that is not Critical, at most one has    *)
(* ShouldNotify = true.                                                    *)
C23_ConcurrentAccessSafe ==
  (rc[1].pc = "done" /\ rc[2].pc = "done") =>
     LET a == EventById(rc[1].ev)
         b == EventById(rc[2].ev)
     IN  (/\ a.tenant = b.tenant
          /\ generateRowKey(a.rule, getEventUser(a)) = generateRowKey(b.rule, getEventUser(b))
          /\ Abs(getEventTimestamp(a) - getEventTimestamp(b)) < DEDUP_WINDOW_MS)
         => /\ ~(rc[1].emitted /\ rc[2].emitted)
            /\ RuleSeverity[a.rule] # "Critical" =>
                  ~(rc[1].ShouldNotify /\ rc[2].ShouldNotify)


(***************************************************************************)
(* Properties of the Clients table.                                        *)
(***************************************************************************)
(* C24: renaming a tenant, adding an existing tenant again and reading the *)
(* clients leave the tenant's lastPoll and status as they were.            *)
C24_AdminKeepsLastPollAndStatus ==
  (ct.last.kind \in {"updateClient", "addClient", "getClients"} /\ ct.last.before.exists) =>
     /\ ct.last.after.lastPoll = ct.last.before.lastPoll
     /\ ct.last.after.status = ct.last.before.status

(* C38: for every rule list the loader accepts and every event,            *)
(* evaluateRules returns a rule or null and does not throw; a conditions    *)
(* object without a rules list and a condition without a field included.    *)
C38_EvaluateRulesNeverThrows ==
  Evaluated => eng.result.kind \in {"rule", "null"}

(* C39: the RawEventSummary of an alert is at most 500 characters long,   *)
(* for every source and every event.                                        *)
C39_SummaryAtMost500 ==
  fn.op = "getEventSummary" /\ fn.calls > 0 => fn.out.length <= 500

(* a < b for two numbers given by their digits *)
NumberLess(a, b) ==
  \/ Len(a) < Len(b)
  \/ /\ Len(a) = Len(b)
     /\ \E i \in 1..Len(a) : a[i] < b[i] /\ \A j \in 1..(i - 1) : a[j] = b[j]

RunsReturned == fn.op = "runHistory" /\ fn.calls = 2

(* C40: run-history row keys invert time order: they are 13 characters     *)
(* wide and of two runs the later one has the lexicographically smaller     *)
(* key; getRunHistory(limit) returns at most limit entries, the newest      *)
(* ones, newest first.                                                      *)
C40_KeysInvertTimeOrder ==
  fn.op = "runHistory" =>
    /\ \A r \in fn.in : Len(r.rowKey) = 13
    /\ \A r1, r2 \in fn.in :
          NumberLess(r1.startTime, r2.startTime) => stringLess(r2.rowKey, r1.rowKey)
    /\ RunsReturned =>
          LET returned == fn.out.runs
          IN  /\ Len(returned) = Min(fn.out.limit, Cardinality(fn.in))
              /\ \A i \in 1..Len(returned) : \E r \in fn.in : r.startTime = returned[i]
              /\ \A i \in 1..(Len(returned) - 1) : NumberLess(returned[i + 1], returned[i])
              /\ \A r \in fn.in :
                    (\A i \in 1..Len(returned) : returned[i] # r.startTime) =>
                       \A i \in 1..Len(returned) : NumberLess(r.startTime, returned[i])

C40_Witness ==
  /\ RunsReturned
  /\ Len(fn.out.runs) = fn.out.limit
  /\ fn.out.limit > 1
  /\ Cardinality(fn.in) > fn.out.limit
  /\ \E r1, r2 \in fn.in : /\ r1.rowKey[1] = "0" /\ r1.rowKey[12] # "0"
                            /\ r2.rowKey[1] = "0" /\ r2.rowKey[12] = "0"
                            /\ NumberLess(r1.startTime, r2.startTime)

(* C36: a tenant deleted through the admin API stays deleted: under any     *)
(* interleaving of deleteClient with updateClientStatus for the tenant, the *)
(* row does not exist once both have completed: deleteClient leaves no row, *)
(* and updateClientStatus never creates a row that is not there.            *)
C36_DeletedStaysDeleted ==
  /\ ct.last.kind = "deleteClient" => ~ct.last.after.exists
  /\ ct.last.kind = "updateClientStatus" /\ ~ct.last.before.exists => ~ct.last.after.exists

(* C37: under any interleaving of updateClient with updateClientStatus for  *)
(* the same tenant no update is lost: the rename's write keeps the lastPoll *)
(* and status that the row holds, and the status update's write keeps the   *)
(* name that the row holds.                                                 *)
C37_NoLostUpdate ==
  (ct.last.before.exists /\ ct.last.after.exists) =>
     /\ ct.last.kind = "updateClient" =>
           /\ ct.last.after.lastPoll = ct.last.before.lastPoll
           /\ ct.last.after.status = ct.last.before.status
     /\ ct.last.kind = "updateClientStatus" =>
           ct.last.after.name = ct.last.before.name

(***************************************************************************)
(* Properties of the two lookups of the alert-state store.                 *)
(***************************************************************************)

(* the distance between the call's event time and the stored dedup timestamp *)
DedupDistance == Abs(getEventTimestamp(EventById(last.id)) - last.priorDedup.timestamp)

(* the dedup lookup of the call found an entry: the read succeeded and the  *)
(* table holds one for the key                                              *)
DedupEntryFound == last.f.dupRead /\ last.priorDedup.present

(* C25: isDuplicate returns true iff the lookup finds a dedup entry for the *)
(* key and |eventTime - entry.timestamp| is strictly less than 5 minutes;   *)
(* at exactly 5 minutes, before or after the stored time, and with no       *)
(* entry, it returns false.                                                 *)
C25_DedupWindowStrict ==
  last.id # 0 =>
    /\ last.isNull <=> (DedupEntryFound /\ DedupDistance < 5 * Minute)
    /\ DedupEntryFound /\ DedupDistance = 5 * Minute => ~last.isNull
    /\ ~last.priorDedup.present => ~last.isNull

C25_Witness ==
  /\ last.id # 0
  /\ DedupEntryFound
  /\ DedupDistance = 5 * Minute
  /\ ~last.isNull

(* the time since the stored notification, at the call *)
SinceNotified == last.at - last.priorNotif.lastNotified

(* the throttle lookup of the call found an entry *)
NotifEntryFound == last.f.notifRead /\ last.priorNotif.present

(* C26: wasNotifiedRecently returns true iff the lookup finds a             *)
(* notification entry for the key and now - entry.lastNotified is strictly  *)
(* less than 60 minutes; at exactly 60 minutes it returns false and the     *)
(* alert is not throttled.  (For a rule that is not Critical, ShouldNotify  *)
(* is the negation of the lookup's answer.)                                 *)
C26_ThrottleWindowStrict ==
  last.id # 0 /\ ~last.isNull /\ last.severity # "Critical" =>
    /\ ~last.ShouldNotify <=> (NotifEntryFound /\ SinceNotified < 60 * Minute)
    /\ NotifEntryFound /\ SinceNotified = 60 * Minute => last.ShouldNotify

C26_Witness ==
  /\ last.id # 0 /\ ~last.isNull /\ last.severity # "Critical"
  /\ NotifEntryFound
  /\ SinceNotified = 60 * Minute
  /\ last.ShouldNotify

(***************************************************************************)
(* Successive windows of a tenant.                                         *)
(***************************************************************************)

(* the tenant whose window is selected next was processed successfully by   *)
(* the run before this one, which began less than 360 minutes earlier       *)
AfterSuccessfulRun(t) ==
  /\ win[t].ok
  /\ win[t].run = runs - 1
  /\ now - win[t].at < 360 * Minute

(* the step selects the window of tenant t and makes its fetches *)
SelectsWindow(t) ==
  /\ pc = "window" /\ pc' = "events"
  /\ Tenants[idx] = t

(* C27: successive successful windows of a tenant leave no gap: when a      *)
(* tenant is processed successfully in two consecutive runs less than 360   *)
(* minutes apart, the since of the second run is not later than the upper   *)
(* time bound that the fetches of the first run used.                       *)
C27_NoGapBetweenWindows ==
  [][\A t \in TenantSet :
        SelectsWindow(t) /\ AfterSuccessfulRun(t) => since' <= win[t].upTo]_vars

(***************************************************************************)
(* Notification state and delivery.                                        *)
(***************************************************************************)

(* the key of the store entries of an alert of the batch *)
AlertKey(a) ==
  LET e == EventById(a.id)
  IN  <<e.tenant, generateRowKey(e.rule, getEventUser(e))>>

(* recordNotification wrote the entry of the alert's key in this run *)
EntryWrittenFor(a) ==
  /\ a.ShouldNotify
  /\ notif[AlertKey(a)].present
  /\ notif[AlertKey(a)].lastNotified >= now

(* the notifier has returned *)
NotifierDone == pc = "cleanup" /\ card.result # "none"

(* C28: a notification entry throttles later alerts only if a notification  *)
(* was really delivered: once the notifier has returned, every alert of the *)
(* batch for which the notification table holds an entry written in the run *)
(* was on a card whose post succeeded.                                      *)
C28_EntryOnlyIfDelivered ==
  NotifierDone =>
    \A i \in 1..Len(allAlerts) :
       EntryWrittenFor(allAlerts[i]) =>
         card.result = "sent" /\ allAlerts[i].id \in card.alerts

(***************************************************************************)
(* What a processAlert call leaves alone.                                  *)
(***************************************************************************)

(* C29: only admitted alerts write dedup state and only notifying alerts    *)
(* write notification state: a match suppressed as a duplicate leaves the   *)
(* dedup entry and the notification entry of its key as they were, and an   *)
(* admitted alert with ShouldNotify = false leaves the notification entry   *)
(* (lastNotified, alertCount) as it was.                                    *)
C29_SuppressedWritesNothing ==
  last.id # 0 =>
    /\ last.isNull => (last.postDedup = last.priorDedup /\ last.postNotif = last.priorNotif)
    /\ ~last.isNull /\ ~last.ShouldNotify => last.postNotif = last.priorNotif

(* a duplicate whose event time differs from the stored one, with a          *)
(* notification entry in the table                                           *)
C29_Witness ==
  /\ last.id # 0
  /\ last.isNull
  /\ last.priorDedup.present
  /\ last.priorDedup.timestamp # getEventTimestamp(EventById(last.id))
  /\ last.priorNotif.present
  /\ last.postDedup = last.priorDedup
  /\ last.postNotif = last.priorNotif

(***************************************************************************)
(* Scope of the store entries.                                             *)
(***************************************************************************)

(* the two matches have the same tenant, the same rule name and users equal *)
(* ignoring case                                                            *)
SameScope ==
  /\ ky.a.tenant = ky.b.tenant
  /\ ky.a.rule = ky.b.rule
  /\ toLowerCase[getEventUser(ky.a)] = toLowerCase[getEventUser(ky.b)]

(* the two matches use the same store entry *)
SameEntry ==
  /\ ky.a.tenant = ky.b.tenant
  /\ generateRowKey(ky.a.rule, getEventUser(ky.a))
       = generateRowKey(ky.b.rule, getEventUser(ky.b))

(* C30: dedup and notification entries are scoped by (tenantId, ruleName,   *)
(* lowercase(user)): two matches use the same entry iff they have the same  *)
(* tenant, the same rule name and users equal ignoring case, so the second  *)
(* match is suppressed or throttled by the record of the first only then;   *)
(* an alert recorded for one tenant never suppresses or throttles an alert  *)
(* of another tenant.                                                       *)
C30_EntriesScopedByTriple ==
  ky.pc = "done" =>
       /\ SameEntry <=> SameScope
       /\ ky.duplicate <=> SameScope
       /\ ky.throttled <=> SameScope
       /\ ky.a.tenant # ky.b.tenant => ~ky.duplicate /\ ~ky.throttled

(***************************************************************************)
(* The audit bootstrap answers that the tenant does not exist.             *)
(***************************************************************************)

(* the audit fetch of tenant t was skipped in the run and the tenant's      *)
(* processing has ended with a status written                               *)
AuditSkipped(t) ==
  /\ variant = "table"
  /\ fetchFault[t] = "skip"
  /\ outcome[t] = "success"

(* C34: in a run where start-subscription replies that the tenant does not  *)
(* exist while the sign-in and security-alert fetches succeed, only the     *)
(* audit fetch is skipped and the status written for the tenant at the end  *)
(* of its processing is auditLogDisabled.                                   *)
C34_SkipWritesAuditLogDisabled ==
  \A t \in TenantSet : AuditSkipped(t) => status[t] = "auditLogDisabled"

(***************************************************************************)
(* Classification of a tenant's failure.                                   *)
(***************************************************************************)

(* the classes in their order of priority, each with the test that puts an  *)
(* error text into it                                                       *)
ClassOrder == <<"appNotConsented", "tenantNotFound", "permissionDenied", "auditLogDisabled">>

InClass(class, text) ==
  CASE class = "appNotConsented" ->
         text \cap {"AADSTS700016", "not found in the directory", "AADSTS65001", "consent"} # {}
    [] class = "tenantNotFound" ->
         "AADSTS90002" \in text \/ {"Tenant", "not found"} \subseteq text
    [] class = "permissionDenied" ->
         text \cap {"403", "Forbidden", "Authorization_RequestDenied"} # {}
    [] class = "auditLogDisabled" ->
         text \cap {"UnifiedAuditLogIsNotEnabled", "audit log"} # {}

Parsed == fn.op = "parseClientError" /\ fn.calls > 0

(* C35: parseClientError is total and assigns exactly one status to every   *)
(* error, testing the classes in the order appNotConsented, tenantNotFound, *)
(* permissionDenied, auditLogDisabled, then the generic 'error': a text     *)
(* matching several classes gets the earliest one, and only the generic     *)
(* class carries the original message, cut to at most 500 characters.       *)
C35_StatusByPriority ==
  Parsed =>
    LET hits == {i \in 1..Len(ClassOrder) : InClass(ClassOrder[i], fn.in.includes)}
    IN  /\ hits # {} => fn.out.status = ClassOrder[CHOOSE i \in hits : \A j \in hits : i <= j]
        /\ hits = {} => fn.out.status = "error"
        /\ fn.out.message.original <=> fn.out.status = "error"
        /\ fn.out.message.original =>
              /\ fn.out.message.length <= 500
              /\ fn.out.message.length = IF fn.in.length <= 500 THEN fn.in.length ELSE 500

(* a text with the patterns of the three last classes, and none of the first *)
C35_Witness ==
  /\ Parsed
  /\ {"Tenant", "not found", "403", "audit log"} \subseteq fn.in.includes
  /\ ~InClass("appNotConsented", fn.in.includes)
  /\ fn.out.status = "tenantNotFound"
====
